---------------------------- MODULE Spec2Model ----------------------------
(***************************************************************************)
(* A model of grisu2.h: the Grisu2 binary-to-decimal conversion of IEEE    *)
(* single and double precision numbers (ComputeBoundaries, the cached      *)
(* powers of ten, Grisu2DigitGen, Grisu2Round) and the Dtoa driver with    *)
(* its formatters (FormatFixed, FormatExponential).                        *)
(*                                                                         *)
(* TLC's integers are 32 bits wide, the program's are 64 and 128 bits      *)
(* wide.  An unsigned integer of the program is therefore modelled as the  *)
(* sequence of its base-2^15 digits ("limbs"), least significant first,    *)
(* without leading zero limbs; uint64_t arithmetic is the arithmetic on    *)
(* these sequences followed by a reduction modulo 2^64.  Characters are    *)
(* their ASCII codes, as in the program ('0' + d).                         *)
(***************************************************************************)
EXTENDS Integers, Sequences, FiniteSets, TLC

VARIABLES
    fmt,        \* the template parameter Fp: "double" or "float"
    input,      \* the IEEE bits of the argument of Dtoa: [sign, E, F]
    force_trailing_dot_zero,
    pc,         \* the position in Dtoa / DtoaPositive / Grisu2 / Grisu2DigitGen
    value,      \* Dtoa's local copy of the argument (negated when signbit)
    buffer,     \* the caller's bytes, buffer[i + 1] is the byte at offset i
    next,       \* offset of DtoaPositive's `next` in the caller's buffer
    end,        \* offset returned by Dtoa (one past the last byte), -1 before
    wmin, wmax, \* least and largest offset, relative to `next`, that
                \* DtoaPositive wrote (0 and -1 before it writes)
    bnd,        \* Boundaries {v, m_minus, m_plus} of ComputeBoundaries
    cached,     \* the CachedPower chosen by Grisu2
    L, w, H,    \* the DiyFp arguments of Grisu2DigitGen
    length, exponent,            \* the int& results of Grisu2
    distance, delta, rest, ten_kappa, p1, p2,  \* locals of Grisu2DigitGen
    m, n,       \* loop counters of Grisu2DigitGen
    digit,      \* local of Grisu2Round
    call        \* the function called: Dtoa, or one of its helpers called on
                \* its own with the arguments and the result in the record

vars == <<fmt, input, force_trailing_dot_zero, pc, value, buffer, next, end,
          wmin, wmax, bnd, cached, L, w, H, length, exponent, distance, delta,
          rest, ten_kappa, p1, p2, m, n, digit, call>>

-----------------------------------------------------------------------------
(* Unsigned integers of any width: base-2^15 limbs, least significant first *)

Base == 2^15

Max(a, b) == IF a >= b THEN a ELSE b
Min(a, b) == IF a <= b THEN a ELSE b

Limb(a, i) == IF i <= Len(a) THEN a[i] ELSE 0

BNorm(a) ==
    LET nz == {i \in 1..Len(a) : a[i] # 0}
    IN  IF nz = {} THEN <<>>
        ELSE SubSeq(a, 1, CHOOSE i \in nz : \A j \in nz : j <= i)

RECURSIVE BFromNat(_)
BFromNat(x) == IF x = 0 THEN <<>> ELSE <<x % Base>> \o BFromNat(x \div Base)

\* The value of a number below 2^30.
BToNat(a) == Limb(a, 1) + Base * Limb(a, 2)

BCmp(a, b) ==
    IF Len(a) # Len(b) THEN (IF Len(a) < Len(b) THEN -1 ELSE 1)
    ELSE LET d == {i \in 1..Len(a) : a[i] # b[i]}
         IN  IF d = {} THEN 0
             ELSE LET t == CHOOSE i \in d : \A j \in d : j <= i
                  IN  IF a[t] < b[t] THEN -1 ELSE 1

BLt(a, b) == BCmp(a, b) < 0
BLe(a, b) == BCmp(a, b) <= 0

\* Limbs i..j of a + b + c and the carry out of limb j.
RECURSIVE BAddR(_, _, _, _, _)
BAddR(a, b, i, j, c) ==
    IF i = j
    THEN LET s == Limb(a, i) + Limb(b, i) + c
         IN  << <<s % Base>>, s \div Base >>
    ELSE LET mid == (i + j) \div 2
             lo  == BAddR(a, b, i, mid, c)
             hi  == BAddR(a, b, mid + 1, j, lo[2])
         IN  << lo[1] \o hi[1], hi[2] >>

BAdd(a, b) ==
    LET k == Max(Len(a), Len(b))
    IN  IF k = 0 THEN <<>>
        ELSE LET r == BAddR(a, b, 1, k, 0)
             IN  IF r[2] = 0 THEN r[1] ELSE Append(r[1], r[2])

\* Limbs i..j of a - b - c and the borrow out of limb j.
RECURSIVE BSubR(_, _, _, _, _)
BSubR(a, b, i, j, c) ==
    IF i = j
    THEN LET s == Limb(a, i) - Limb(b, i) - c
         IN  IF s < 0 THEN << <<s + Base>>, 1 >> ELSE << <<s>>, 0 >>
    ELSE LET mid == (i + j) \div 2
             lo  == BSubR(a, b, i, mid, c)
             hi  == BSubR(a, b, mid + 1, j, lo[2])
         IN  << lo[1] \o hi[1], hi[2] >>

\* a - b for a >= b.
BSub(a, b) == IF Len(a) = 0 THEN <<>> ELSE BNorm(BSubR(a, b, 1, Len(a), 0)[1])

\* Limbs i..j of a * s + c (0 <= s <= 2^15) and the carry out of limb j.
RECURSIVE BMulSmallR(_, _, _, _, _)
BMulSmallR(a, s, i, j, c) ==
    IF i = j
    THEN LET t == a[i] * s + c
         IN  << <<t % Base>>, t \div Base >>
    ELSE LET mid == (i + j) \div 2
             lo  == BMulSmallR(a, s, i, mid, c)
             hi  == BMulSmallR(a, s, mid + 1, j, lo[2])
         IN  << lo[1] \o hi[1], hi[2] >>

BMulSmall(a, s) ==
    IF Len(a) = 0 \/ s = 0 THEN <<>>
    ELSE LET r == BMulSmallR(a, s, 1, Len(a), 0)
         IN  IF r[2] = 0 THEN r[1] ELSE r[1] \o BFromNat(r[2])

BShlLimbs(a, q) == IF Len(a) = 0 THEN <<>> ELSE [i \in 1..q |-> 0] \o a

\* The sum over the limbs i..j of b of a * b[k] * Base^(k-1).
RECURSIVE BMulR(_, _, _, _)
BMulR(a, b, i, j) ==
    IF i = j THEN BShlLimbs(BMulSmall(a, b[i]), i - 1)
    ELSE LET mid == (i + j) \div 2
         IN  BAdd(BMulR(a, b, i, mid), BMulR(a, b, mid + 1, j))

BMul(a, b) == IF Len(a) = 0 \/ Len(b) = 0 THEN <<>> ELSE BMulR(a, b, 1, Len(b))

\* Quotient limbs i..j and the remainder of dividing by s (1 <= s <= 2^15),
\* r the remainder coming down from the limbs above j.
RECURSIVE BDivSmallR(_, _, _, _, _)
BDivSmallR(a, s, i, j, r) ==
    IF i = j
    THEN LET t == r * Base + a[i]
         IN  << <<t \div s>>, t % s >>
    ELSE LET mid == (i + j) \div 2
             hi  == BDivSmallR(a, s, mid + 1, j, r)
             lo  == BDivSmallR(a, s, i, mid, hi[2])
         IN  << lo[1] \o hi[1], lo[2] >>

BDivSmall(a, s) == IF Len(a) = 0 THEN <<>> ELSE BNorm(BDivSmallR(a, s, 1, Len(a), 0)[1])
BModSmall(a, s) == IF Len(a) = 0 THEN 0 ELSE BDivSmallR(a, s, 1, Len(a), 0)[2]

\* a << k, a >> k and a mod 2^k, without any width.
BShl(a, k) == BShlLimbs(BMulSmall(a, 2^(k % 15)), k \div 15)
BShr(a, k) ==
    LET q == k \div 15
    IN  IF q >= Len(a) THEN <<>>
        ELSE BDivSmall(SubSeq(a, q + 1, Len(a)), 2^(k % 15))
BLowBits(a, k) ==
    LET q == k \div 15
    IN  BNorm([i \in 1..Min(Len(a), q + 1) |->
                 IF i <= q THEN a[i] ELSE a[i] % (2^(k % 15))])

BPow2(k) == BShl(<<1>>, k)

\* The number of bits of a (0 for 0).
BitLen(a) ==
    IF Len(a) = 0 THEN 0
    ELSE 15 * (Len(a) - 1)
         + (CHOOSE k \in 1..15 : 2^(k - 1) <= a[Len(a)] /\ a[Len(a)] < 2^k)

RECURSIVE BPow10(_)
BPow10(k) ==
    IF k <= 4 THEN BFromNat(10^k)
    ELSE LET h == BPow10(k \div 2)
         IN  BMulSmall(BMul(h, h), IF k % 2 = 1 THEN 10 ELSE 1)

\* A 64-bit constant from its four 16-bit groups, most significant first.
Hex64(a, b, c, d) ==
    BAdd(BAdd(BShl(BFromNat(a), 48), BShl(BFromNat(b), 32)),
         BAdd(BShl(BFromNat(c), 16), BFromNat(d)))

\* A number written in groups of four decimal digits, most significant first.
RECURSIVE Dec4(_)
Dec4(g) ==
    IF Len(g) = 0 THEN <<>>
    ELSE BAdd(BMulSmall(Dec4(SubSeq(g, 1, Len(g) - 1)), 10000), BFromNat(g[Len(g)]))

-----------------------------------------------------------------------------
(* uint64_t and int arithmetic of the program *)

U64(a) == BLowBits(a, 64)
U32(a) == BLowBits(a, 32)

U64Add(a, b) == U64(BAdd(a, b))
U64Sub(a, b) == IF BLe(b, a) THEN BSub(a, b) ELSE BSub(BAdd(a, BPow2(64)), b)
U64Mul(a, b) == U64(BMul(a, b))
U64Shl(a, k) == U64(BShl(a, k))

\* C's int division truncates toward zero.
CDiv(a, b) == IF a >= 0 THEN a \div b ELSE -((-a) \div b)

-----------------------------------------------------------------------------
(* DiyFp *)

DiyFp(f, e) == [f |-> f, e |-> e]

Subtract(x, y) == DiyFp(U64Sub(x.f, y.f), x.e)

\* A Multiply that drops the low word without rounding.
Multiply_truncating(x, y) == DiyFp(BShr(BMul(x.f, y.f), 64), x.e + y.e + 64)

\* The form with unsigned __int128 (and, alike, with _umul128).
Multiply(x, y) ==
    LET p == BMul(x.f, y.f)
        h == BShr(p, 64)
        l == U64(p)
    IN  DiyFp(U64Add(h, BShr(l, 63)), x.e + y.e + 64)

\* The form that emulates the multiplication with four 32 x 32 products:
\* Q with the rounding bit added, and h; the sums are those of uint64_t, or,
\* with exact, the sums of the numbers.
Schoolbook(x, y, exact) ==
    LET Add(a, b) == IF exact THEN BAdd(a, b) ELSE U64Add(a, b)
        u == [lo |-> U32(x.f), hi |-> U32(BShr(x.f, 32))]
        v == [lo |-> U32(y.f), hi |-> U32(BShr(y.f, 32))]
        p == [p0 |-> U64Mul(u.lo, v.lo), p1 |-> U64Mul(u.lo, v.hi),
              p2 |-> U64Mul(u.hi, v.lo), p3 |-> U64Mul(u.hi, v.hi)]
        p0_hi == BShr(p.p0, 32)
        p1_lo == BLowBits(p.p1, 32)
        p1_hi == BShr(p.p1, 32)
        p2_lo == BLowBits(p.p2, 32)
        p2_hi == BShr(p.p2, 32)
        Q     == [sum |-> Add(Add(Add(p0_hi, p1_lo), p2_lo),
                              U64Shl(<<1>>, 63 - 32))]
    IN  [Q |-> Q.sum,
         h |-> Add(Add(Add(p.p3, p2_hi), p1_hi), BShr(Q.sum, 32))]

MultiplySchoolbook(x, y) ==
    DiyFp(Schoolbook(x, y, FALSE).h, x.e + y.e + 64)

\* A Normalize that leaves the top bit of the significand clear.
Normalize_one_bit_short(x) ==
    LET lz == 63 - BitLen(x.f)
    IN  DiyFp(U64Shl(x.f, lz), x.e - lz)

Normalize(x) ==
    LET lz == 64 - BitLen(x.f)
    IN  DiyFp(U64Shl(x.f, lz), x.e - lz)

NormalizeTo(x, e) ==
    LET d == x.e - e
    IN  DiyFp(U64Shl(x.f, d), e)

\* The precondition as the comment above NormalizeTo words it: e >= x.e and
\* the upper e - x.e bits of x.f are zero.
NormalizeToAsserts_as_commented(x, e) ==
    LET d == e - x.e
    IN  d >= 0 /\ BitLen(x.f) + d <= 64

\* The two assertions of NormalizeTo, for a shift count the uint64_t shifts
\* are defined for.
NormalizeToAsserts(x, e) ==
    LET d == x.e - e
    IN  /\ d >= 0
        /\ BShr(U64Shl(x.f, d), d) = x.f

-----------------------------------------------------------------------------
(* ComputeBoundaries *)

Digits(t)      == IF t = "double" THEN 53 ELSE 24
MaxExponent(t) == IF t = "double" THEN 1024 ELSE 128
MaxDigits10(t) == IF t = "double" THEN 17 ELSE 9
kBias(t)       == MaxExponent(t) - 1 + (Digits(t) - 1)
kHiddenBit(t)  == BPow2(Digits(t) - 1)
ExpFieldMax(t) == 2 * MaxExponent(t) - 1

IsNan(t, x)    == x.E = ExpFieldMax(t) /\ x.F # <<>>
IsInf(t, x)    == x.E = ExpFieldMax(t) /\ x.F = <<>>
IsZero(t, x)   == x.E = 0 /\ x.F = <<>>
IsFinite(t, x) == x.E < ExpFieldMax(t)
SignBit(x)     == x.sign = 1
Negate(x)      == [x EXCEPT !.sign = 1 - x.sign]

ValueDiyFp(t, x) ==
    IF x.E = 0 THEN DiyFp(x.F, 1 - kBias(t))
    ELSE DiyFp(BAdd(x.F, kHiddenBit(t)), x.E - kBias(t))

\* A flag that is set for the smallest normal value too.
LowerBoundaryIsCloser_at_any_exponent(x) == x.F = <<>>

LowerBoundaryIsCloser(x) == x.F = <<>> /\ x.E > 1

ComputeBoundaries(t, x) ==
    LET v == ValueDiyFp(t, x)
        lower_boundary_is_closer == LowerBoundaryIsCloser(x)
        m_plus  == DiyFp(U64Add(U64Mul(<<2>>, v.f), <<1>>), v.e - 1)
        m_minus == IF lower_boundary_is_closer
                   THEN DiyFp(U64Sub(U64Mul(<<4>>, v.f), <<1>>), v.e - 2)
                   ELSE DiyFp(U64Sub(U64Mul(<<2>>, v.f), <<1>>), v.e - 1)
        b       == [v |-> v, m_minus |-> m_minus, m_plus |-> m_plus]
        nw      == Normalize(b.v)
        w_plus  == NormalizeTo(b.m_plus, nw.e)
        w_minus == NormalizeTo(b.m_minus, w_plus.e)
    IN  [v |-> nw, m_plus |-> w_plus, m_minus |-> w_minus]

-----------------------------------------------------------------------------
(* The cached powers of ten *)

kAlpha == -60
kGamma == -32

kCachedPowersSize == 79
kCachedPowersMinDecExp == -300
kCachedPowersMaxDecExp == 324
kCachedPowersDecExpStep == 8

kCachedPowers == <<
    <<\hAB70, \hFE17, \hC79A, \hC6CA, -1060, -300>>,
    <<\hFF77, \hB1FC, \hBEBC, \hDC4F, -1034, -292>>,
    <<\hBE56, \h91EF, \h416B, \hD60C, -1007, -284>>,
    <<\h8DD0, \h1FAD, \h907F, \hFC3C,  -980, -276>>,
    <<\hD351, \h5C28, \h3155, \h9A83,  -954, -268>>,
    <<\h9D71, \hAC8F, \hADA6, \hC9B5,  -927, -260>>,
    <<\hEA9C, \h2277, \h23EE, \h8BCB,  -901, -252>>,
    <<\hAECC, \h4991, \h4078, \h536D,  -874, -244>>,
    <<\h823C, \h1279, \h5DB6, \hCE57,  -847, -236>>,
    <<\hC210, \h9436, \h4DFB, \h5637,  -821, -228>>,
    <<\h9096, \hEA6F, \h3848, \h984F,  -794, -220>>,
    <<\hD774, \h85CB, \h2582, \h3AC7,  -768, -212>>,
    <<\hA086, \hCFCD, \h97BF, \h97F4,  -741, -204>>,
    <<\hEF34, \h0A98, \h172A, \hACE5,  -715, -196>>,
    <<\hB238, \h67FB, \h2A35, \hB28E,  -688, -188>>,
    <<\h84C8, \hD4DF, \hD2C6, \h3F3B,  -661, -180>>,
    <<\hC5DD, \h4427, \h1AD3, \hCDBA,  -635, -172>>,
    <<\h936B, \h9FCE, \hBB25, \hC996,  -608, -164>>,
    <<\hDBAC, \h6C24, \h7D62, \hA584,  -582, -156>>,
    <<\hA3AB, \h6658, \h0D5F, \hDAF6,  -555, -148>>,
    <<\hF3E2, \hF893, \hDEC3, \hF126,  -529, -140>>,
    <<\hB5B5, \hADA8, \hAAFF, \h80B8,  -502, -132>>,
    <<\h8762, \h5F05, \h6C7C, \h4A8B,  -475, -124>>,
    <<\hC9BC, \hFF60, \h34C1, \h3053,  -449, -116>>,
    <<\h964E, \h858C, \h91BA, \h2655,  -422, -108>>,
    <<\hDFF9, \h7724, \h7029, \h7EBD,  -396, -100>>,
    <<\hA6DF, \hBD9F, \hB8E5, \hB88F,  -369,  -92>>,
    <<\hF8A9, \h5FCF, \h8874, \h7D94,  -343,  -84>>,
    <<\hB944, \h7093, \h8FA8, \h9BCF,  -316,  -76>>,
    <<\h8A08, \hF0F8, \hBF0F, \h156B,  -289,  -68>>,
    <<\hCDB0, \h2555, \h6531, \h31B6,  -263,  -60>>,
    <<\h993F, \hE2C6, \hD07B, \h7FAC,  -236,  -52>>,
    <<\hE45C, \h10C4, \h2A2B, \h3B06,  -210,  -44>>,
    <<\hAA24, \h2499, \h6973, \h92D3,  -183,  -36>>,
    <<\hFD87, \hB5F2, \h8300, \hCA0E,  -157,  -28>>,
    <<\hBCE5, \h0864, \h9211, \h1AEB,  -130,  -20>>,
    <<\h8CBC, \hCC09, \h6F50, \h88CC,  -103,  -12>>,
    <<\hD1B7, \h1758, \hE219, \h652C,   -77,   -4>>,
    <<\h9C40, \h0000, \h0000, \h0000,   -50,    4>>,
    <<\hE8D4, \hA510, \h0000, \h0000,   -24,   12>>,
    <<\hAD78, \hEBC5, \hAC62, \h0000,     3,   20>>,
    <<\h813F, \h3978, \hF894, \h0984,    30,   28>>,
    <<\hC097, \hCE7B, \hC907, \h15B3,    56,   36>>,
    <<\h8F7E, \h32CE, \h7BEA, \h5C70,    83,   44>>,
    <<\hD5D2, \h38A4, \hABE9, \h8068,   109,   52>>,
    <<\h9F4F, \h2726, \h179A, \h2245,   136,   60>>,
    <<\hED63, \hA231, \hD4C4, \hFB27,   162,   68>>,
    <<\hB0DE, \h6538, \h8CC8, \hADA8,   189,   76>>,
    <<\h83C7, \h088E, \h1AAB, \h65DB,   216,   84>>,
    <<\hC45D, \h1DF9, \h4271, \h1D9A,   242,   92>>,
    <<\h924D, \h692C, \hA61B, \hE758,   269,  100>>,
    <<\hDA01, \hEE64, \h1A70, \h8DEA,   295,  108>>,
    <<\hA26D, \hA399, \h9AEF, \h774A,   322,  116>>,
    <<\hF209, \h787B, \hB47D, \h6B85,   348,  124>>,
    <<\hB454, \hE4A1, \h79DD, \h1877,   375,  132>>,
    <<\h865B, \h8692, \h5B9B, \hC5C2,   402,  140>>,
    <<\hC835, \h53C5, \hC896, \h5D3D,   428,  148>>,
    <<\h952A, \hB45C, \hFA97, \hA0B3,   455,  156>>,
    <<\hDE46, \h9FBD, \h99A0, \h5FE3,   481,  164>>,
    <<\hA59B, \hC234, \hDB39, \h8C25,   508,  172>>,
    <<\hF6C6, \h9A72, \hA398, \h9F5C,   534,  180>>,
    <<\hB7DC, \hBF53, \h54E9, \hBECE,   561,  188>>,
    <<\h88FC, \hF317, \hF222, \h41E2,   588,  196>>,
    <<\hCC20, \hCE9B, \hD35C, \h78A5,   614,  204>>,
    <<\h9816, \h5AF3, \h7B21, \h53DF,   641,  212>>,
    <<\hE2A0, \hB5DC, \h971F, \h303A,   667,  220>>,
    <<\hA8D9, \hD153, \h5CE3, \hB396,   694,  228>>,
    <<\hFB9B, \h7CD9, \hA4A7, \h443C,   720,  236>>,
    <<\hBB76, \h4C4C, \hA7A4, \h4410,   747,  244>>,
    <<\h8BAB, \h8EEF, \hB640, \h9C1A,   774,  252>>,
    <<\hD01F, \hEF10, \hA657, \h842C,   800,  260>>,
    <<\h9B10, \hA4E5, \hE991, \h3129,   827,  268>>,
    <<\hE710, \h9BFB, \hA19C, \h0C9D,   853,  276>>,
    <<\hAC28, \h20D9, \h623B, \hF429,   880,  284>>,
    <<\h8044, \h4B5E, \h7AA7, \hCF85,   907,  292>>,
    <<\hBF21, \hE440, \h03AC, \hDD2D,   933,  300>>,
    <<\h8E67, \h9C2F, \h5E44, \hFF8F,   960,  308>>,
    <<\hD433, \h179D, \h9C8C, \hB841,   986,  316>>,
    <<\h9E19, \hDB92, \hB4E3, \h1BA9,  1013,  324>>
>>

GetCachedPower(index) ==
    LET c == kCachedPowers[index + 1]
    IN  [f |-> Hex64(c[1], c[2], c[3], c[4]), e |-> c[5], k |-> c[6]]

\* The exponents of the normalized DiyFps of the finite positive doubles.
MinBinaryExponent == -1137
MaxBinaryExponent == 960

\* k with the quotient rounded down, not toward zero as / of C++ does.
CachedPowerK_rounding_down(e) ==
    LET f == kAlpha - e - 1
    IN  ((f * 78913) \div 2^18) + (IF f > 0 THEN 1 ELSE 0)

\* k without the correction + (f > 0).
CachedPowerK_without_correction(e) ==
    LET f == kAlpha - e - 1
    IN  CDiv(f * 78913, 2^18)

\* The locals k and index of GetCachedPowerForBinaryExponent(e), and the
\* numerator of the division that gives index.
CachedPowerK(e) ==
    LET f == kAlpha - e - 1
    IN  CDiv(f * 78913, 2^18) + (IF f > 0 THEN 1 ELSE 0)

CachedPowerIndexNumerator(e) ==
    -kCachedPowersMinDecExp + CachedPowerK(e) + (kCachedPowersDecExpStep - 1)

\* An index rounded down: the entry before the one wanted.
CachedPowerIndex_rounded_down(e) ==
    CDiv(-kCachedPowersMinDecExp + CachedPowerK(e), kCachedPowersDecExpStep)

\* An index from a quotient rounded down, not toward zero.
CachedPowerIndex_floor_division(e) ==
    CachedPowerIndexNumerator(e) \div kCachedPowersDecExpStep

CachedPowerIndex(e) ==
    CDiv(CachedPowerIndexNumerator(e), kCachedPowersDecExpStep)

GetCachedPowerForBinaryExponent(e) == GetCachedPower(CachedPowerIndex(e))

\* The assertions of GetCachedPowerForBinaryExponent(e), in their order.
CachedPowerAsserts(e) ==
    /\ e >= -1500 /\ e <= 1500
    /\ CachedPowerIndex(e) >= 0
    /\ CachedPowerIndex(e) < kCachedPowersSize
    /\ kAlpha <= GetCachedPowerForBinaryExponent(e).e + e + 64
    /\ kGamma >= GetCachedPowerForBinaryExponent(e).e + e + 64

-----------------------------------------------------------------------------
(* Characters and the caller's buffer *)

Ch(d) == 48 + d                       \* '0' + d

kDtoaPositiveMaxLength == 24

\* The caller's buffer: one byte for the sign, kDtoaPositiveMaxLength bytes
\* for DtoaPositive, and some bytes behind them, so that a write past the
\* promised 24 bytes is seen instead of being lost.
BufferSize == 1 + kDtoaPositiveMaxLength + 8

nan_string == <<78, 97, 78>>                          \* "NaN"
inf_string == <<73, 110, 102, 105, 110, 105, 116, 121>> \* "Infinity"

\* The state of one call, as a record of the variables.
Cur ==
    [fmt |-> fmt, input |-> input,
     force_trailing_dot_zero |-> force_trailing_dot_zero, pc |-> pc,
     value |-> value, buffer |-> buffer, next |-> next, end |-> end,
     wmin |-> wmin, wmax |-> wmax, bnd |-> bnd, cached |-> cached,
     L |-> L, w |-> w, H |-> H,
     length |-> length, exponent |-> exponent, distance |-> distance,
     delta |-> delta, rest |-> rest, ten_kappa |-> ten_kappa, p1 |-> p1,
     p2 |-> p2, m |-> m, n |-> n, digit |-> digit, call |-> call]

Set(t) ==
    /\ fmt' = t.fmt /\ input' = t.input
    /\ force_trailing_dot_zero' = t.force_trailing_dot_zero /\ pc' = t.pc
    /\ value' = t.value /\ buffer' = t.buffer /\ next' = t.next /\ end' = t.end
    /\ wmin' = t.wmin /\ wmax' = t.wmax /\ bnd' = t.bnd /\ cached' = t.cached
    /\ L' = t.L /\ w' = t.w /\ H' = t.H
    /\ length' = t.length /\ exponent' = t.exponent /\ distance' = t.distance
    /\ delta' = t.delta /\ rest' = t.rest /\ ten_kappa' = t.ten_kappa
    /\ p1' = t.p1 /\ p2' = t.p2 /\ m' = t.m /\ n' = t.n /\ digit' = t.digit
    /\ call' = t.call

\* The byte at offset off of DtoaPositive's buffer (buffer[off] in the code).
Rd(s, off) == s.buffer[s.next + off + 1]

\* memcpy / assignment of bytes to buffer[off .. off + Len(bytes) - 1].
Wr(s, off, bytes) ==
    [s EXCEPT
       !.buffer = [i \in 1..Len(s.buffer) |->
                     IF /\ i - 1 - s.next >= off
                        /\ i - 1 - s.next < off + Len(bytes)
                     THEN bytes[i - s.next - off] ELSE s.buffer[i]],
       !.wmin = IF Len(bytes) = 0 THEN @ ELSE Min(@, off),
       !.wmax = IF Len(bytes) = 0 THEN @ ELSE Max(@, off + Len(bytes) - 1)]

\* buffer[from .. from + cnt - 1]
Bytes(s, from, cnt) == [i \in 1..cnt |-> Rd(s, from + i - 1)]

Fill(c, cnt) == [i \in 1..cnt |-> c]

Utoa100(digits) == <<Ch(digits \div 10), Ch(digits % 10)>>

-----------------------------------------------------------------------------
(* GenerateIntegralDigits *)

\* The bytes written from label L_<cnt>_digits on.
RECURSIVE IntegralDigitsFrom(_, _)
IntegralDigitsFrom(x, cnt) ==
    IF cnt = 1 THEN <<Ch(x)>>
    ELSE IF cnt = 2 THEN Utoa100(x)
    ELSE Utoa100(x \div 10^(cnt - 2))
         \o IntegralDigitsFrom(x % 10^(cnt - 2), cnt - 2)

\* A GenerateIntegralDigits that always enters at the label for 9 digits.
GenerateIntegralDigits_from_9_digits(x) == IntegralDigitsFrom(x, 9)

GenerateIntegralDigits(x) ==
    IF x >= 100000000 THEN IntegralDigitsFrom(x, 9)
    ELSE IF x >= 10000000 THEN IntegralDigitsFrom(x, 8)
    ELSE IF x >= 1000000 THEN IntegralDigitsFrom(x, 7)
    ELSE IF x >= 100000 THEN IntegralDigitsFrom(x, 6)
    ELSE IF x >= 10000 THEN IntegralDigitsFrom(x, 5)
    ELSE IF x >= 1000 THEN IntegralDigitsFrom(x, 4)
    ELSE IF x >= 100 THEN IntegralDigitsFrom(x, 3)
    ELSE IF x >= 10 THEN IntegralDigitsFrom(x, 2)
    ELSE IntegralDigitsFrom(x, 1)

-----------------------------------------------------------------------------
(* Grisu2, Grisu2DigitGen, Grisu2Round: one operator per step *)

\* DtoaPositive calls Grisu2<Fp>, which calls ComputeBoundaries.
Grisu2_boundaries(s) ==
    [s EXCEPT !.bnd = ComputeBoundaries(s.fmt, s.value), !.length = 0,
              !.exponent = 0, !.pc = "Grisu2"]

\* Grisu2: scale v, m- and m+ by the cached power and tighten the interval.
Grisu2_scale(s) ==
    LET c == GetCachedPowerForBinaryExponent(s.bnd.v.e)
        c_minus_k == DiyFp(c.f, c.e)
        p == [w       |-> Multiply(s.bnd.v, c_minus_k),
              w_minus |-> Multiply(s.bnd.m_minus, c_minus_k),
              w_plus  |-> Multiply(s.bnd.m_plus, c_minus_k)]
    IN  [s EXCEPT !.cached = c, !.w = p.w,
                  !.L = DiyFp(U64Add(p.w_minus.f, <<1>>), p.w_minus.e),
                  !.H = DiyFp(U64Sub(p.w_plus.f, <<1>>), p.w_plus.e),
                  !.pc = "Grisu2DigitGen"]

One(h) == DiyFp(U64Shl(<<1>>, -h.e), h.e)

\* A Grisu2DigitGen that returns all the digits of p1 when p2 <= delta.
DigitGen_start_skip_trim(s) ==
    LET one  == One(s.H)
        dist == Subtract(s.H, s.w).f
        del  == Subtract(s.H, s.L).f
        q1   == U32(BShr(s.H.f, -one.e))
        q2   == BLowBits(s.H.f, -one.e)
        dig  == GenerateIntegralDigits(BToNat(q1))
        t    == Wr(s, 0, dig)
    IN  IF BLt(del, q2)
        THEN [t EXCEPT !.distance = dist, !.delta = del, !.p1 = q1, !.p2 = q2,
                       !.length = Len(dig), !.m = 0, !.pc = "FracLoop"]
        ELSE [t EXCEPT !.distance = dist, !.delta = del, !.p1 = q1, !.p2 = q2,
                       !.length = Len(dig), !.rest = q2, !.ten_kappa = one.f,
                       !.n = 0, !.exponent = 0, !.pc = "Grisu2Round"]

\* Grisu2DigitGen up to the test p2 > delta.
DigitGen_start(s) ==
    LET one  == One(s.H)
        dist == Subtract(s.H, s.w).f
        del  == Subtract(s.H, s.L).f
        q1   == U32(BShr(s.H.f, -one.e))
        q2   == BLowBits(s.H.f, -one.e)
        dig  == GenerateIntegralDigits(BToNat(q1))
        t    == Wr(s, 0, dig)
    IN  IF BLt(del, q2)
        THEN [t EXCEPT !.distance = dist, !.delta = del, !.p1 = q1, !.p2 = q2,
                       !.length = Len(dig), !.m = 0, !.pc = "FracLoop"]
        ELSE [t EXCEPT !.distance = dist, !.delta = del, !.p1 = q1, !.p2 = q2,
                       !.length = Len(dig), !.rest = q2, !.ten_kappa = one.f,
                       !.n = 0, !.pc = "TrimLoop"]

\* A fractional loop that forgets delta *= 10.
DigitGen_frac_delta_not_scaled(s) ==
    LET one == One(s.H)
        p10 == U64Mul(s.p2, <<10>>)
        d   == BShr(p10, -one.e)
        r   == BLowBits(p10, -one.e)
        t   == Wr(s, s.length, <<Ch(BToNat(d))>>)
        del == s.delta
        dis == U64Mul(s.distance, <<10>>)
    IN  IF BLe(r, del)
        THEN [t EXCEPT !.length = s.length + 1, !.p2 = r, !.m = s.m + 1,
                       !.delta = del, !.distance = dis,
                       !.exponent = -(s.m + 1), !.rest = r,
                       !.ten_kappa = one.f, !.pc = "Grisu2Round"]
        ELSE [t EXCEPT !.length = s.length + 1, !.p2 = r, !.m = s.m + 1,
                       !.delta = del, !.distance = dis]

\* A fractional loop that leaves the digit it has extracted in p2.
DigitGen_frac_keeps_digit_in_p2(s) ==
    LET one == One(s.H)
        p10 == U64Mul(s.p2, <<10>>)
        d   == BShr(p10, -one.e)
        t   == Wr(s, s.length, <<Ch(BToNat(d))>>)
        del == U64Mul(s.delta, <<10>>)
        dis == U64Mul(s.distance, <<10>>)
    IN  IF BLe(p10, del)
        THEN [t EXCEPT !.length = s.length + 1, !.p2 = p10, !.m = s.m + 1,
                       !.delta = del, !.distance = dis,
                       !.exponent = -(s.m + 1), !.rest = p10,
                       !.ten_kappa = one.f, !.pc = "Grisu2Round"]
        ELSE [t EXCEPT !.length = s.length + 1, !.p2 = p10, !.m = s.m + 1,
                       !.delta = del, !.distance = dis]

\* One iteration of the loop that generates the digits of the fraction.
DigitGen_frac(s) ==
    LET one == One(s.H)
        p10 == U64Mul(s.p2, <<10>>)
        d   == BShr(p10, -one.e)
        r   == BLowBits(p10, -one.e)
        t   == Wr(s, s.length, <<Ch(BToNat(d))>>)
        del == U64Mul(s.delta, <<10>>)
        dis == U64Mul(s.distance, <<10>>)
    IN  IF BLe(r, del)
        THEN [t EXCEPT !.length = s.length + 1, !.p2 = r, !.m = s.m + 1,
                       !.delta = del, !.distance = dis,
                       !.exponent = -(s.m + 1), !.rest = r,
                       !.ten_kappa = one.f, !.pc = "Grisu2Round"]
        ELSE [t EXCEPT !.length = s.length + 1, !.p2 = r, !.m = s.m + 1,
                       !.delta = del, !.distance = dis]

\* A trimming loop that leaves at the first test.
DigitGen_trim_never(s) ==
    [s EXCEPT !.length = s.length - s.n, !.exponent = s.n,
              !.pc = "Grisu2Round"]

\* A trimming loop that tests rest, without the digit just read.
DigitGen_trim_tests_rest(s) ==
    IF BLt(s.delta, s.rest)
    THEN [s EXCEPT !.length = s.length - s.n, !.exponent = s.n,
                   !.pc = "Grisu2Round"]
    ELSE [s EXCEPT !.ten_kappa = U64Mul(s.ten_kappa, <<10>>), !.n = s.n + 1]

\* One iteration of the loop that drops digits of the integral part
\* (k of the code is s.length, which this loop leaves alone until its exit).
DigitGen_trim(s) ==
    LET k  == s.length
        dn == Rd(s, k - 1 - s.n) - Ch(0)
        rn == U64Add(U64Mul(BFromNat(dn), s.ten_kappa), s.rest)
    IN  IF BLt(s.delta, rn)
        THEN [s EXCEPT !.length = k - s.n, !.exponent = s.n,
                       !.pc = "Grisu2Round"]
        ELSE [s EXCEPT !.rest = rn, !.ten_kappa = U64Mul(s.ten_kappa, <<10>>),
                       !.n = s.n + 1]

\* Grisu2Round: the read of the last digit.
Round_start(s) ==
    [s EXCEPT !.digit = Rd(s, s.length - 1) - Ch(0), !.pc = "RoundLoop"]

\* The while condition without the test that keeps the result above L.
RoundCondition_without_interval_test(s) ==
    /\ BLt(s.rest, s.distance)
    /\ \/ BLe(U64Add(s.rest, s.ten_kappa), s.distance)
       \/ BLt(U64Sub(U64Add(s.rest, s.ten_kappa), s.distance),
              U64Sub(s.distance, s.rest))

\* A while condition that never steps over w.
RoundCondition_without_crossing(s) ==
    /\ BLt(s.rest, s.distance)
    /\ BLe(s.ten_kappa, U64Sub(s.delta, s.rest))
    /\ BLe(U64Add(s.rest, s.ten_kappa), s.distance)

RoundCondition(s) ==
    /\ BLt(s.rest, s.distance)
    /\ BLe(s.ten_kappa, U64Sub(s.delta, s.rest))
    /\ \/ BLe(U64Add(s.rest, s.ten_kappa), s.distance)
       \/ BLt(U64Sub(U64Add(s.rest, s.ten_kappa), s.distance),
              U64Sub(s.distance, s.rest))

\* A loop that forgets rest += ten_kappa.
Round_loop_without_rest_update(s) ==
    IF RoundCondition(s)
    THEN [s EXCEPT !.digit = s.digit - 1]
    ELSE [Wr(s, s.length - 1, <<Ch(s.digit)>>) EXCEPT !.pc = "Grisu2Return"]

\* Grisu2Round: the test of the while loop, and one iteration or the exit.
Round_loop(s) ==
    IF RoundCondition(s)
    THEN [s EXCEPT !.digit = s.digit - 1, !.rest = U64Add(s.rest, s.ten_kappa)]
    ELSE [Wr(s, s.length - 1, <<Ch(s.digit)>>) EXCEPT !.pc = "Grisu2Return"]

\* A Grisu2 that adds cached.k instead of subtracting it.
Grisu2_return_plus_k(s) ==
    [s EXCEPT !.exponent = s.exponent + s.cached.k, !.pc = "Format"]

\* Grisu2 after Grisu2DigitGen: exponent += -cached.k.
Grisu2_return(s) ==
    [s EXCEPT !.exponent = s.exponent + (-s.cached.k), !.pc = "Format"]

-----------------------------------------------------------------------------
(* Itoa1000, FormatFixed, FormatExponential, DtoaPositive *)

\* The bytes Itoa1000 appends for -1000 < x < 1000.
Itoa1000(x) ==
    LET k == IF x < 0 THEN -x ELSE x
    IN  <<IF x < 0 THEN 45 ELSE 43>>                   \* '-' or '+'
        \o (IF k < 10 THEN <<Ch(k)>>
            ELSE IF k < 100 THEN Utoa100(k)
            ELSE <<Ch(k \div 100)>> \o Utoa100(k % 100))

\* A FormatFixed that appends ".0" to every text without a decimal point.
FormatFixed_always_dot_zero(s, len, decimal_point, force) ==
    IF len <= decimal_point
    THEN LET t == Wr(s, len, Fill(Ch(0), decimal_point - len))
         IN  [Wr(t, decimal_point, <<46, Ch(0)>>)
                EXCEPT !.end = s.next + decimal_point + 2]
    ELSE IF 0 < decimal_point
    THEN LET t == Wr(s, decimal_point + 1,
                     Bytes(s, decimal_point, len - decimal_point))
         IN  [Wr(t, decimal_point, <<46>>) EXCEPT !.end = s.next + len + 1]
    ELSE LET t == Wr(s, 2 + (-decimal_point), Bytes(s, 0, len))
             u == Wr(Wr(t, 0, <<Ch(0)>>), 1, <<46>>)
         IN  [Wr(u, 2, Fill(Ch(0), -decimal_point))
                EXCEPT !.end = s.next + 2 + (-decimal_point) + len]

\* FormatFixed: the state after it, s.end the pointer it returns.
FormatFixed(s, len, decimal_point, force) ==
    IF len <= decimal_point
    THEN LET t == Wr(s, len, Fill(Ch(0), decimal_point - len))
         IN  IF force
             THEN [Wr(t, decimal_point, <<46, Ch(0)>>)
                     EXCEPT !.end = s.next + decimal_point + 2]
             ELSE [t EXCEPT !.end = s.next + decimal_point]
    ELSE IF 0 < decimal_point
    THEN LET t == Wr(s, decimal_point + 1,
                     Bytes(s, decimal_point, len - decimal_point))
         IN  [Wr(t, decimal_point, <<46>>) EXCEPT !.end = s.next + len + 1]
    ELSE LET t == Wr(s, 2 + (-decimal_point), Bytes(s, 0, len))
             u == Wr(Wr(t, 0, <<Ch(0)>>), 1, <<46>>)
         IN  [Wr(u, 2, Fill(Ch(0), -decimal_point))
                EXCEPT !.end = s.next + 2 + (-decimal_point) + len]

\* FormatExponential: the state after it, s.end the pointer it returns.
FormatExponential(s, len, decimal_point) ==
    LET t   == IF len = 1 THEN s
               ELSE Wr(Wr(s, 2, Bytes(s, 1, len - 1)), 1, <<46>>)
        at  == IF len = 1 THEN 1 ELSE 1 + len
        exp == Itoa1000(decimal_point - 1)
    IN  [Wr(Wr(t, at, <<101>>), at + 1, exp)           \* 'e'
           EXCEPT !.end = s.next + at + 1 + Len(exp)]

kMinExp == -6

\* static_cast<Fp>(uint64_t{1} << digits): the Fp 2^p.
kMaxVal(t) == [sign |-> 0, E |-> MaxExponent(t) - 1 + Digits(t), F |-> <<>>]

\* x <= y for two positive finite values of the same type.
FpLessEq(x, y) == x.E < y.E \/ (x.E = y.E /\ BLe(x.F, y.F))

\* use_fixed without the test of the value.
UseFixed_without_kMaxVal(t, x, decimal_point) == kMinExp < decimal_point

\* use_fixed of the variant that is compiled out: printf's %g style.
UseFixed_printf_style(t, x, decimal_point) ==
    kMinExp < decimal_point /\ decimal_point <= 21

\* use_fixed with kMinExp <= decimal_point.
UseFixed_from_kMinExp(t, x, decimal_point) ==
    kMinExp <= decimal_point /\ FpLessEq(x, kMaxVal(t))

UseFixed(t, x, decimal_point) ==
    kMinExp < decimal_point /\ FpLessEq(x, kMaxVal(t))

\* DtoaPositive after Grisu2.
DtoaPositive_format(s) ==
    LET decimal_point == s.length + s.exponent
        t == IF UseFixed(s.fmt, s.value, decimal_point)
             THEN FormatFixed(s, s.length, decimal_point,
                              s.force_trailing_dot_zero)
             ELSE FormatExponential(s, s.length, decimal_point)
    IN  [t EXCEPT !.pc = "done"]

-----------------------------------------------------------------------------
(* Dtoa *)

\* The caller's buffer with bytes stored from offset at on.
Store(buf, at, bytes) ==
    [i \in 1..Len(buf) |->
       IF i - 1 >= at /\ i - 1 < at + Len(bytes) THEN bytes[i - at] ELSE buf[i]]

\* StrCopy(next, last, source)
StrCopy(s, source) ==
    [s EXCEPT !.buffer = Store(s.buffer, s.next, source),
              !.end = s.next + Len(source), !.pc = "done"]

\* A Dtoa that tests value < 0 where the code tests signbit(value).
Dtoa_entry_less_than_zero(s) ==
    IF IsNan(s.fmt, s.value) THEN StrCopy(s, nan_string)
    ELSE IF SignBit(s.value) /\ ~IsZero(s.fmt, s.value)
    THEN [s EXCEPT !.value = Negate(s.value),
                   !.buffer = Store(s.buffer, s.next, <<45>>),
                   !.next = s.next + 1, !.pc = "DtoaMagnitude"]
    ELSE [s EXCEPT !.pc = "DtoaMagnitude"]

\* Dtoa: the isnan and the signbit tests.
Dtoa_entry(s) ==
    IF IsNan(s.fmt, s.value) THEN StrCopy(s, nan_string)
    ELSE IF SignBit(s.value)
    THEN [s EXCEPT !.value = Negate(s.value),
                   !.buffer = Store(s.buffer, s.next, <<45>>),   \* '-'
                   !.next = s.next + 1, !.pc = "DtoaMagnitude"]
    ELSE [s EXCEPT !.pc = "DtoaMagnitude"]

\* Dtoa: the isinf and the zero tests, and the call of DtoaPositive.
Dtoa_magnitude(s) ==
    IF IsInf(s.fmt, s.value) THEN StrCopy(s, inf_string)
    ELSE IF IsZero(s.fmt, s.value)
    THEN LET text == IF s.force_trailing_dot_zero
                     THEN <<Ch(0), 46, Ch(0)>> ELSE <<Ch(0)>>
         IN  [s EXCEPT !.buffer = Store(s.buffer, s.next, text),
                       !.end = s.next + Len(text), !.pc = "done"]
    ELSE [s EXCEPT !.pc = "DtoaPositive"]

\* The step of the call in state s.
Step(s) ==
    CASE s.pc = "Dtoa"           -> Dtoa_entry(s)
      [] s.pc = "DtoaMagnitude"  -> Dtoa_magnitude(s)
      [] s.pc = "DtoaPositive"   -> Grisu2_boundaries(s)
      [] s.pc = "Grisu2"         -> Grisu2_scale(s)
      [] s.pc = "Grisu2DigitGen" -> DigitGen_start(s)
      [] s.pc = "FracLoop"       -> DigitGen_frac(s)
      [] s.pc = "TrimLoop"       -> DigitGen_trim(s)
      [] s.pc = "Grisu2Round"    -> Round_start(s)
      [] s.pc = "RoundLoop"      -> Round_loop(s)
      [] s.pc = "Grisu2Return"   -> Grisu2_return(s)
      [] s.pc = "Format"         -> DtoaPositive_format(s)

\* The state at the call Dtoa(buffer, buffer + BufferSize, x, force).
Call(t, x, force) ==
    [fmt |-> t, input |-> x, force_trailing_dot_zero |-> force, pc |-> "Dtoa",
     value |-> x, buffer |-> Fill(0, BufferSize), next |-> 0, end |-> -1,
     wmin |-> 0, wmax |-> -1,
     bnd |-> [v |-> DiyFp(<<>>, 0), m_minus |-> DiyFp(<<>>, 0),
              m_plus |-> DiyFp(<<>>, 0)],
     cached |-> [f |-> <<>>, e |-> 0, k |-> 0],
     L |-> DiyFp(<<>>, 0), w |-> DiyFp(<<>>, 0), H |-> DiyFp(<<>>, 0),
     length |-> 0, exponent |-> 0, distance |-> <<>>, delta |-> <<>>,
     rest |-> <<>>, ten_kappa |-> <<>>, p1 |-> <<>>, p2 |-> <<>>,
     m |-> 0, n |-> 0, digit |-> 0, call |-> [fn |-> "Dtoa"]]

\* The state Dtoa returns in, and the text it has written.
RECURSIVE Run(_)
Run(s) == IF s.pc = "done" THEN s ELSE Run(Step(s))

Text(s) == SubSeq(s.buffer, 1, s.end)

DtoaText(t, x, force) == Text(Run(Call(t, x, force)))

-----------------------------------------------------------------------------
(* The arguments of the calls *)

\* The positive value with exponent field E and fraction field F, F written
\* in groups of four decimal digits.
Fp(E, F) == [sign |-> 0, E |-> E, F |-> Dec4(F)]

DoubleLiterals == {
    Fp(1023, <<>>),                         \* 1.0
    Fp(1023, <<2251, 7998, 1368, 5248>>),   \* 1.5
    Fp(1019, <<2702, 1597, 7642, 2298>>),   \* 0.1
    Fp(1019, <<2702, 1597, 7642, 2296>>),   \* 0.3 - 0.2 = 0.09999999999999998
    Fp(2046, <<4503, 5996, 2737, 495>>),    \* DBL_MAX = 1.7976931348623157e308
    Fp(0, <<1>>),                           \* 5e-324, the smallest denormal
    Fp(1092, <<3125, 7949, 387, 9504>>),    \* 1e21
    Fp(1089, <<1599, 9159, 9762, 9504>>),   \* 1e20
    Fp(1076, <<>>),                         \* 2^53 = 9007199254740992
    Fp(1076, <<1>>),                        \* 2^53 + 2
    Fp(1003, <<218, 7668, 5549, 9149>>),    \* 1e-6
    Fp(1000, <<158, 3205, 6451, 8418>>),    \* 1.234e-7
    Fp(1049, <<3781, 4452, 4389, 5808>>),   \* 123456789.125
    Fp(1006, <<1195, 4386, 7215, 813>>),    \* 9.654546414717341e-06
    Fp(1005, <<4125, 470, 9381, 3668>>),    \* 7.3087480630607775e-06
    Fp(1000, <<1534, 3192, 5114, 6956>>),   \* 1.5982238196728179e-07
    Fp(883, <<>>),                          \* 2^-140 = 7.174648137343064e-43
    Fp(1995, <<4503, 5996, 2737, 495>>),    \* 7.983361238138878e+292
    Fp(0, <<>>),                            \* 0.0
    Fp(2047, <<>>),                         \* Infinity
    Fp(2047, <<2251, 7998, 1368, 5248>>) }  \* a NaN

FloatLiterals == {
    Fp(127, <<>>),                          \* 1.0f
    Fp(123, <<503, 3165>>),                 \* 0.1f
    Fp(254, <<838, 8607>>),                 \* FLT_MAX = 3.4028235e+38f
    Fp(0, <<1>>),                           \* 1e-45f, the smallest denormal
    Fp(151, <<>>),                          \* 2^24 = 16777216
    Fp(151, <<1>>),                         \* 2^24 + 2
    Fp(43, <<303, 2061>>),                  \* 7.0385307e-26f
    Fp(50, <<578, 9062>>),                  \* 1.11842096e-23f
    Fp(31, <<>>),                           \* 2^-96 = 1.2621775e-29f
    Fp(222, <<838, 8607>>),                 \* 7.922816e+28f
    Fp(36, <<>>),                           \* 2^-91 = 4.038968e-28f
    Fp(0, <<>>),                            \* 0.0f
    Fp(255, <<>>),                          \* Infinity
    Fp(255, <<419, 4304>>) }                \* a NaN

\* The number of pseudo-random fraction fields tried with each exponent field
\* of SampleExponents.
FracSamples == 2

SampleExponents(t) ==
    IF t = "double" THEN {0, 1, 2, 970, 1040, 1100, 2046}
    ELSE {0, 2, 100, 140, 254}

Scramble(i, j) == (((i * 7919 + j * 10473 + 4321) % Base) * 16807 + 13) % Base

\* The i-th pseudo-random fraction field with exponent field E.
SampleFraction(t, E, i) ==
    IF t = "double"
    THEN BNorm(<<Scramble(E + i, 1), Scramble(E + i, 2), Scramble(E + i, 3),
                 Scramble(E + i, 4) % 2^7>>)
    ELSE BNorm(<<Scramble(E + i, 1), Scramble(E + i, 2) % 2^8>>)

Samples(t) ==
    {[sign |-> 0, E |-> E, F |-> SampleFraction(t, E, i)] :
        E \in SampleExponents(t), i \in 1..FracSamples}
    \cup {[sign |-> 0, E |-> E, F |-> <<>>] : E \in SampleExponents(t) \ {0}}

Magnitudes(t) ==
    (IF t = "double" THEN DoubleLiterals ELSE FloatLiterals) \cup Samples(t)

-----------------------------------------------------------------------------
(* The specification *)

InitFrom(t) ==
    /\ fmt = t.fmt /\ input = t.input
    /\ force_trailing_dot_zero = t.force_trailing_dot_zero /\ pc = t.pc
    /\ value = t.value /\ buffer = t.buffer /\ next = t.next /\ end = t.end
    /\ wmin = t.wmin /\ wmax = t.wmax /\ bnd = t.bnd /\ cached = t.cached
    /\ L = t.L /\ w = t.w /\ H = t.H
    /\ length = t.length /\ exponent = t.exponent /\ distance = t.distance
    /\ delta = t.delta /\ rest = t.rest /\ ten_kappa = t.ten_kappa
    /\ p1 = t.p1 /\ p2 = t.p2 /\ m = t.m /\ n = t.n /\ digit = t.digit
    /\ call = t.call

Init ==
    \E t \in {"double", "float"} :
      \E x \in Magnitudes(t), sign \in {0, 1}, force \in BOOLEAN :
        InitFrom(Call(t, [x EXCEPT !.sign = sign], force))

DtoaEntry        == pc = "Dtoa"           /\ Set(Dtoa_entry(Cur))
DtoaMagnitude    == pc = "DtoaMagnitude"  /\ Set(Dtoa_magnitude(Cur))
Grisu2Boundaries == pc = "DtoaPositive"   /\ Set(Grisu2_boundaries(Cur))
Grisu2Scale      == pc = "Grisu2"         /\ Set(Grisu2_scale(Cur))
DigitGenStart    == pc = "Grisu2DigitGen" /\ Set(DigitGen_start(Cur))
DigitGenFrac     == pc = "FracLoop"       /\ Set(DigitGen_frac(Cur))
DigitGenTrim     == pc = "TrimLoop"       /\ Set(DigitGen_trim(Cur))
RoundStart       == pc = "Grisu2Round"    /\ Set(Round_start(Cur))
RoundLoop        == pc = "RoundLoop"      /\ Set(Round_loop(Cur))
Grisu2Return     == pc = "Grisu2Return"   /\ Set(Grisu2_return(Cur))
DtoaFormat       == pc = "Format"         /\ Set(DtoaPositive_format(Cur))

Next ==
    \/ DtoaEntry
    \/ DtoaMagnitude
    \/ Grisu2Boundaries
    \/ Grisu2Scale
    \/ DigitGenStart
    \/ DigitGenFrac
    \/ DigitGenTrim
    \/ RoundStart
    \/ RoundLoop
    \/ Grisu2Return
    \/ DtoaFormat

Spec == Init /\ [][Next]_vars

\* Where the call is: the statement it is at and the counters of its loops.
Position == <<pc, m, n, digit>>

\* A step to another position.  Every step of Next is one (C20 states it),
\* and one is possible until Dtoa has returned.
Advance ==
    /\ pc # "done"
    /\ pc' \in {"DtoaMagnitude", "DtoaPositive", "Grisu2", "Grisu2DigitGen",
                "FracLoop", "TrimLoop", "Grisu2Round", "RoundLoop",
                "Grisu2Return", "Format", "done"}
    /\ m' \in {0, m, m + 1} /\ n' \in {0, n, n + 1}
    /\ digit' \in 0..9 \cup {digit - 1}

\* The call is not suspended: it advances as long as it has not returned.
FairSpec == Spec /\ WF_Position(Advance)

-----------------------------------------------------------------------------
(* Exact numbers: c * 2^b * 10^d *)

Num(c, b, d) == [c |-> c, b |-> b, d |-> d]

\* -1, 0 or 1 as x is below, equal to or above y.
CmpNum(x, y) ==
    BCmp(BMul(BShl(x.c, Max(x.b - y.b, 0)), BPow10(Max(x.d - y.d, 0))),
         BMul(BShl(y.c, Max(y.b - x.b, 0)), BPow10(Max(y.d - x.d, 0))))

\* x + y for two numbers without a decimal factor.
AddBin(x, y) ==
    LET b == Min(x.b, y.b)
    IN  Num(BAdd(BShl(x.c, x.b - b), BShl(y.c, y.b - b)), b, 0)

Twice(x) == [x EXCEPT !.c = BMulSmall(@, 2)]

\* The integer written with the decimal digits bytes: up to four digits at
\* once, longer texts by halves.
RECURSIVE DecValue(_)
DecValue(bytes) ==
    LET len == Len(bytes)
        D(i) == IF i <= len THEN (bytes[i] - 48) * 10^(len - i) ELSE 0
        h   == len \div 2
    IN  IF len <= 4 THEN BFromNat(D(1) + D(2) + D(3) + D(4))
        ELSE BAdd(BMul(DecValue(SubSeq(bytes, 1, len - h)), BPow10(h)),
                  DecValue(SubSeq(bytes, len - h + 1, len)))

IsDigits(bytes) == \A i \in 1..Len(bytes) : bytes[i] \in 48..57

\* The real number a positive finite value stands for.
FpNum(t, x) == LET v == ValueDiyFp(t, x) IN Num(v.f, v.e, 0)

\* The values next to a positive finite x: the bit patterns before and after
\* its own (the one after the largest finite value stands for 2^max_exponent).
FpPred(t, x) ==
    IF x.F = <<>> THEN [x EXCEPT !.E = x.E - 1, !.F = BSub(kHiddenBit(t), <<1>>)]
    ELSE [x EXCEPT !.F = BSub(x.F, <<1>>)]
FpSucc(t, x) ==
    IF BAdd(x.F, <<1>>) = kHiddenBit(t) THEN [x EXCEPT !.E = x.E + 1, !.F = <<>>]
    ELSE [x EXCEPT !.F = BAdd(x.F, <<1>>)]

\* Twice the midpoints m- and m+ of x and its neighbours.
TwiceMMinus(t, x) == AddBin(FpNum(t, FpPred(t, x)), FpNum(t, x))
TwiceMPlus(t, x)  == AddBin(FpNum(t, x), FpNum(t, FpSucc(t, x)))

\* The number v lies strictly between the midpoints of x: every correctly
\* rounding parser returns x for it, however it breaks ties.
RoundsTo(t, x, v) ==
    /\ CmpNum(TwiceMMinus(t, x), Twice(v)) < 0
    /\ CmpNum(Twice(v), TwiceMPlus(t, x)) < 0

\* The decimal number Grisu2 has returned: buffer[0 .. length) * 10^exponent.
Grisu2Digits == Bytes(Cur, 0, length)
Grisu2Num    == Num(DecValue(Grisu2Digits), 0, exponent)

\* What strtod / strtof read in a text: [-] digits [. digits] [e (+|-) digits].
\* ok tells whether the text has this form, neg and the number digits * 10^exp
\* are what it says.
ParseDecimal(text) ==
    LET neg   == Len(text) > 0 /\ text[1] = 45
        body  == IF neg THEN SubSeq(text, 2, Len(text)) ELSE text
        es    == {i \in 1..Len(body) : body[i] = 101}
        epos  == IF es = {} THEN Len(body) + 1 ELSE CHOOSE i \in es : TRUE
        mant  == SubSeq(body, 1, epos - 1)
        ds    == {i \in 1..Len(mant) : mant[i] = 46}
        dpos  == IF ds = {} THEN Len(mant) + 1 ELSE CHOOSE i \in ds : TRUE
        ipart == SubSeq(mant, 1, dpos - 1)
        fpart == SubSeq(mant, dpos + 1, Len(mant))
        epart == SubSeq(body, epos + 1, Len(body))
        edig  == SubSeq(epart, 2, Len(epart))
        eabs  == IF Len(edig) \in 1..3 /\ IsDigits(edig)
                 THEN BToNat(DecValue(edig)) ELSE 0
        e10   == IF es = {} THEN 0
                 ELSE IF epart[1] = 45 THEN -eabs ELSE eabs
    IN  [ok  |-> /\ Cardinality(es) <= 1 /\ Cardinality(ds) <= 1
                 /\ Len(ipart) >= 1 /\ IsDigits(ipart) /\ IsDigits(fpart)
                 /\ (ds # {} => Len(fpart) >= 1)
                 /\ (es # {} => /\ Len(epart) \in 2..4
                                /\ epart[1] \in {43, 45}
                                /\ IsDigits(edig)),
         neg |-> neg,
         num |-> Num(DecValue(ipart \o fpart), 0, e10 - Len(fpart))]

(***************************************************************************)
(* C1.  Round trip.  (a) When Grisu2 has returned, the decimal number      *)
(* buffer * 10^exponent lies strictly between the midpoints m- and m+ of   *)
(* the value and its two neighbours.  (b) When Dtoa has returned for a     *)
(* finite argument, the text is a decimal numeral with the sign of the     *)
(* argument whose number is zero for a zero, and otherwise lies strictly   *)
(* between the midpoints of the argument's magnitude, so that strtod       *)
(* (strtof for a float) gives back the argument, bit for bit.              *)
(***************************************************************************)
C1_RoundTrip ==
    /\ pc = "Format" => RoundsTo(fmt, value, Grisu2Num)
    /\ pc = "done" /\ IsFinite(fmt, input) =>
         LET r == ParseDecimal(Text(Cur))
             x == [input EXCEPT !.sign = 0]
         IN  /\ r.ok
             /\ r.neg = SignBit(input)
             /\ IF IsZero(fmt, x) THEN r.num.c = <<>>
                ELSE RoundsTo(fmt, x, r.num)

\* Dtoa has returned an exponential text with several digits for a negative
\* float.
C1_Witness ==
    /\ pc = "done" /\ fmt = "float" /\ SignBit(input) /\ IsFinite(fmt, input)
    /\ length > 1 /\ 101 \in {buffer[i] : i \in 1..end}

-----------------------------------------------------------------------------
(* Shortness *)

\* A decimal d * 10^j with fewer digits than the length digits Grisu2 has
\* written lies in the closed interval [lo2 / 2, hi2 / 2].  The decimal V the
\* digits stand for lies in the interval, so if a multiple of 10^j lies in it,
\* one of the two multiples next to V does: d is the first length - i digits
\* or that number plus one, for j = exponent + i.  (A shorter decimal at some
\* j <= exponent is below 10^(length - 1 + exponent) <= V, and then this power
\* of ten itself lies in the interval: it is the case i = length - 1.)
ShorterDecimalIn(lo2, hi2) ==
    \E i \in 1..length : \E c \in {0, 1} :
        LET d  == BAdd(DecValue(SubSeq(Grisu2Digits, 1, length - i)),
                       BFromNat(c))
            v2 == Twice(Num(d, 0, exponent + i))
        IN  /\ d # <<>>
            /\ BLt(d, BPow10(length - 1))
            /\ CmpNum(lo2, v2) <= 0
            /\ CmpNum(v2, hi2) <= 0

\* L and H of Grisu2 as numbers on the scale of the value: L * 10^k, H * 10^k
\* (cached.k = -k).
ScaledL == Num(L.f, L.e, -cached.k)
ScaledH == Num(H.f, H.e, -cached.k)

(***************************************************************************)
(* C2 as stated.  When Grisu2 has returned for a double, no decimal with   *)
(* fewer digits than the ones written lies in the closed interval          *)
(* [m-, m+] between the midpoints of the value and its neighbours.         *)
(***************************************************************************)
C2_ShortestBetweenMidpoints ==
    pc = "Format" /\ fmt = "double" =>
        ~ShorterDecimalIn(TwiceMMinus(fmt, value), TwiceMPlus(fmt, value))

(***************************************************************************)
(* C2 as the code has it.  When Grisu2 has returned for a double, no       *)
(* decimal with fewer digits than the ones written lies in the closed      *)
(* interval [L * 10^k, H * 10^k], where L = c*m- + 1 ulp and               *)
(* H = c*m+ - 1 ulp are the bounds Grisu2 hands to Grisu2DigitGen and      *)
(* 10^-k is the cached power c.  The interval lies strictly inside         *)
(* (m-, m+), and a shorter decimal may lie between the two.                *)
(***************************************************************************)
C2_ShortestInScaledLH ==
    pc = "Format" /\ fmt = "double" =>
        /\ CmpNum(TwiceMMinus(fmt, value), Twice(ScaledL)) < 0
        /\ CmpNum(Twice(ScaledH), TwiceMPlus(fmt, value)) < 0
        /\ ~ShorterDecimalIn(Twice(ScaledL), Twice(ScaledH))

\* Grisu2 has returned 16 digits for a double although a decimal of fewer
\* digits lies between the midpoints, outside [L * 10^k, H * 10^k].
C2_Witness ==
    /\ pc = "Format" /\ fmt = "double" /\ length = 16
    /\ ShorterDecimalIn(TwiceMMinus(fmt, value), TwiceMPlus(fmt, value))
    /\ ~ShorterDecimalIn(Twice(ScaledL), Twice(ScaledH))

-----------------------------------------------------------------------------
(* Format choice *)

\* The text holds the byte c.
Holds(text, c) == \E i \in 1..Len(text) : text[i] = c

\* x > 2^p, by the numbers the two stand for.
Above2ToP(t, x) == CmpNum(FpNum(t, x), Num(<<1>>, Digits(t), 0)) > 0

(***************************************************************************)
(* C3.  When DtoaPositive has returned, with decimal_point = length +      *)
(* exponent of Grisu2, the text is exponential (it holds an 'e') if and    *)
(* only if decimal_point <= -6 or the value is above 2^p, p = 53 for a     *)
(* double and 24 for a float: the step DtoaPositive takes after Grisu2 is  *)
(* FormatExponential in that case and FormatFixed in every other.          *)
(***************************************************************************)
C3_FormatChoice ==
    [][pc = "Format" =>
        LET decimal_point == length + exponent
            exponential == decimal_point <= -6 \/ Above2ToP(fmt, value)
            formatted ==
                IF exponential
                THEN FormatExponential(Cur, length, decimal_point)
                ELSE FormatFixed(Cur, length, decimal_point,
                                 force_trailing_dot_zero)
        IN  /\ Cur' = [formatted EXCEPT !.pc = "done"]
            /\ Holds(Text(Cur'), 101) <=> exponential]_vars

\* DtoaPositive has returned an exponential text for a value that is not
\* above 2^p: its decimal point is at -6.
C3_Witness ==
    /\ pc = "done" /\ IsFinite(fmt, input) /\ ~IsZero(fmt, input)
    /\ length + exponent = -6 /\ ~Above2ToP(fmt, value)
    /\ Holds(Text(Cur), 101)

\* The double 1e20 = 100000000000000000000.
OneE20 == Fp(1089, <<1599, 9159, 9762, 9504>>)

(***************************************************************************)
(* C4 as stated.  When Dtoa has returned for the double 1e20 without       *)
(* force_trailing_dot_zero, Grisu2 has given the digit 1 with the decimal  *)
(* exponent 20 and the text is the 21 characters 100000000000000000000.    *)
(***************************************************************************)
C4_OneE20Fixed ==
    pc = "done" /\ fmt = "double" /\ input = OneE20
                /\ ~force_trailing_dot_zero =>
        /\ Grisu2Digits = <<Ch(1)>> /\ exponent = 20
        /\ Text(Cur) = <<Ch(1)>> \o Fill(Ch(0), 20)

(***************************************************************************)
(* C4 as the code has it.  When Dtoa has returned for the double 1e20      *)
(* without force_trailing_dot_zero, Grisu2 has given the digit 1 with the  *)
(* decimal exponent 20 and, 1e20 being above 2^53, the text is the 5       *)
(* characters 1e+20 of FormatExponential.                                  *)
(***************************************************************************)
C4_OneE20Exponential ==
    pc = "done" /\ fmt = "double" /\ input = OneE20
                /\ ~force_trailing_dot_zero =>
        /\ Grisu2Digits = <<Ch(1)>> /\ exponent = 20
        /\ Above2ToP(fmt, value)
        /\ Text(Cur) = <<Ch(1), 101, 43, Ch(2), Ch(0)>>

\* Dtoa has returned for 1e20 with the default options.
C4_Witness ==
    /\ pc = "done" /\ fmt = "double" /\ input = OneE20
    /\ ~force_trailing_dot_zero /\ end = 5

-----------------------------------------------------------------------------
(* Sign, specials, force_trailing_dot_zero *)

(***************************************************************************)
(* C5.  When Dtoa has returned: for an argument with the sign bit that is  *)
(* not a NaN the text is '-' followed by the text Dtoa writes for the      *)
(* negated argument; the text of +0 is "0" and that of -0 is "-0" (each    *)
(* followed by ".0" under force_trailing_dot_zero); the text of +Infinity  *)
(* is the Inf spelling and that of -Infinity the same after '-'; the text  *)
(* of a NaN of either sign is the NaN spelling.                            *)
(***************************************************************************)
C5_SignAndSpecials ==
    pc = "done" =>
        LET text == Text(Cur)
            zero == IF force_trailing_dot_zero
                    THEN <<Ch(0), 46, Ch(0)>> ELSE <<Ch(0)>>
        IN  /\ SignBit(input) /\ ~IsNan(fmt, input) =>
                 text = <<45>> \o DtoaText(fmt, Negate(input),
                                           force_trailing_dot_zero)
            /\ ~SignBit(input) /\ ~IsNan(fmt, input) => text[1] # 45
            /\ IsZero(fmt, input) =>
                 text = (IF SignBit(input) THEN <<45>> ELSE <<>>) \o zero
            /\ IsInf(fmt, input) =>
                 text = (IF SignBit(input) THEN <<45>> ELSE <<>>)
                        \o inf_string
            /\ IsNan(fmt, input) => text = nan_string

\* Dtoa has returned for -0.
C5_Witness ==
    pc = "done" /\ SignBit(input) /\ IsZero(fmt, input) /\ end = 2

(***************************************************************************)
(* C6.  When Dtoa has returned: the text with force_trailing_dot_zero is   *)
(* the text without it followed by ".0" if the latter is a fixed text      *)
(* without a decimal point, that is the argument is a zero or FormatFixed  *)
(* was called with length <= decimal_point, and the two texts are the      *)
(* same in every other case (a fixed text with '.', an exponential text,   *)
(* NaN, Infinity).                                                         *)
(***************************************************************************)
C6_ForceTrailingDotZero ==
    pc = "done" =>
        LET plain  == Run(Call(fmt, input, FALSE))
            forced == Run(Call(fmt, input, TRUE))
            x      == [input EXCEPT !.sign = 0]
            fixed_integer ==
                /\ IsFinite(fmt, input)
                /\ \/ IsZero(fmt, input)
                   \/ /\ UseFixed(fmt, x, plain.length + plain.exponent)
                      /\ plain.length <= plain.length + plain.exponent
        IN  /\ Text(Cur) = Text(IF force_trailing_dot_zero
                                THEN forced ELSE plain)
            /\ Text(forced) = IF fixed_integer
                              THEN Text(plain) \o <<46, Ch(0)>>
                              ELSE Text(plain)
            /\ fixed_integer <=> /\ IsFinite(fmt, input)
                                 /\ ~Holds(Text(plain), 46)
                                 /\ ~Holds(Text(plain), 101)

\* Dtoa has returned a text that ends in the ".0" of force_trailing_dot_zero
\* for a value that is not zero.
C6_Witness ==
    /\ pc = "done" /\ force_trailing_dot_zero
    /\ IsFinite(fmt, input) /\ ~IsZero(fmt, input) /\ length > 1
    /\ Text(Cur) = DtoaText(fmt, input, FALSE) \o <<46, Ch(0)>>

-----------------------------------------------------------------------------
(* Bounds *)

\* DtoaPositive has been called and has returned.
DtoaPositiveReturned ==
    pc = "done" /\ IsFinite(fmt, input) /\ ~IsZero(fmt, input)

(***************************************************************************)
(* C7.  Every byte DtoaPositive has written, in Grisu2DigitGen (the digits *)
(* of p1 that are trimmed later included), FormatFixed or                  *)
(* FormatExponential, is at an offset in 0 .. 23 of its buffer, and the    *)
(* pointer it returns is at most kDtoaPositiveMaxLength = 24 past the      *)
(* start of the buffer.                                                    *)
(***************************************************************************)
C7_BufferBound ==
    /\ wmin >= 0
    /\ wmax <= kDtoaPositiveMaxLength - 1
    /\ DtoaPositiveReturned => /\ end - next <= kDtoaPositiveMaxLength
                               /\ end - next <= wmax + 1

\* DtoaPositive has returned a text of 24 bytes.
C7_Witness ==
    DtoaPositiveReturned /\ end - next = kDtoaPositiveMaxLength /\ wmax = 23

(***************************************************************************)
(* C8.  When Grisu2 has returned, 1 <= length <= max_digits10 (17 for a    *)
(* double, 9 for a float), and at the top of every iteration of the loop   *)
(* of Grisu2DigitGen that generates the digits of the fraction             *)
(* length < 17 (length < max_digits10 for either type).                    *)
(***************************************************************************)
C8_DigitCount ==
    /\ pc \in {"Format", "done"} /\ IsFinite(fmt, input)
                                 /\ ~IsZero(fmt, input) =>
            1 <= length /\ length <= MaxDigits10(fmt)
    /\ pc = "FracLoop" => length < 17 /\ length < MaxDigits10(fmt)

\* Grisu2 has returned max_digits10 digits, the last ones from the loop of
\* the fraction.
C8_Witness ==
    pc = "Format" /\ length = MaxDigits10(fmt) /\ m > 0 /\ fmt = "double"

-----------------------------------------------------------------------------
(* Grisu2DigitGen and Grisu2Round *)

\* Grisu2DigitGen has generated its digits: Grisu2Round is called, runs or
\* has returned.
InRound == pc \in {"Grisu2Round", "RoundLoop", "Grisu2Return"}

\* The integer buffer[0 .. length) stands for; while Grisu2Round runs the
\* last digit is the one it holds in digit and writes back at its end.
RoundDigits ==
    IF pc = "RoundLoop"
    THEN BAdd(BMulSmall(DecValue(SubSeq(Grisu2Digits, 1, length - 1)), 10),
              BFromNat(digit))
    ELSE DecValue(Grisu2Digits)

\* V = buffer * 10^exponent, and L and H, as numbers.
RoundV == Num(RoundDigits, 0, exponent)
NumL   == Num(L.f, L.e, 0)
NumH   == Num(H.f, H.e, 0)

(***************************************************************************)
(* C9.  At the call of Grisu2Round, after each decrement it performs and   *)
(* when Grisu2DigitGen returns: L, w and H have one exponent e in          *)
(* [-60, -32] and L.f <= w.f <= H.f; rest <= delta; rest is H - V in the   *)
(* current unit, that is H.f * 10^m = digits * 10^n * 2^-e + rest for the  *)
(* m digits of the fraction generated (delta = (H.f - L.f) * 10^m) or the  *)
(* n digits of p1 dropped; and so L <= V <= H for V = buffer *             *)
(* 10^exponent.                                                            *)
(***************************************************************************)
C9_ResultInInterval ==
    InRound =>
        /\ L.e = H.e /\ w.e = H.e /\ kAlpha <= H.e /\ H.e <= kGamma
        /\ BLe(L.f, w.f) /\ BLe(w.f, H.f)
        /\ digit \in 0..9
        /\ BLe(rest, delta)
        /\ delta = BMul(BSub(H.f, L.f), BPow10(m))
        /\ BMul(H.f, BPow10(m))
             = BAdd(BShl(BMul(RoundDigits, BPow10(n)), -H.e), rest)
        /\ exponent = n - m
        /\ CmpNum(NumL, RoundV) <= 0
        /\ CmpNum(RoundV, NumH) <= 0

\* Grisu2Round has decremented the last digit.
C9_Witness ==
    /\ pc = "RoundLoop" /\ digit < Rd(Cur, length - 1) - Ch(0)
    /\ BLt(<<>>, rest)

(***************************************************************************)
(* C10.  When Grisu2DigitGen returns, no decimal d * 10^j with fewer       *)
(* digits than the length digits of the buffer lies in the closed interval *)
(* [L, H]: the buffer has the least number of digits a decimal in [L, H]   *)
(* can have.                                                               *)
(***************************************************************************)
C10_ShortestInLH ==
    pc = "Grisu2Return" =>
        /\ CmpNum(NumL, RoundV) <= 0
        /\ CmpNum(RoundV, NumH) <= 0
        /\ ~ShorterDecimalIn(Twice(NumL), Twice(NumH))

\* Grisu2DigitGen returns fewer digits than p1 has: the trimming loop has
\* dropped some.
C10_Witness ==
    pc = "Grisu2Return" /\ n > 0 /\ length > 1

-----------------------------------------------------------------------------
(* The helpers called on their own *)

\* The state at a call of a helper: the record call holds the function, its
\* arguments, the value returned (ret, empty before the return) and trap,
\* "assert" when an assertion of the function has failed.
Helper(c) ==
    IF c.fn = "Grisu2Round"
    THEN [c.at EXCEPT !.call = [fn |-> "Grisu2Round"]]
    ELSE [Call("double", Fp(0, <<>>), FALSE) EXCEPT !.pc = "call",
                                                    !.call = c]

Returned(s, v) == [s EXCEPT !.call.ret = <<v>>, !.pc = "returned"]
Trapped(s)     == [s EXCEPT !.call.trap = "assert", !.pc = "returned"]

\* The calls GetCachedPowerForBinaryExponent(e): every e the first two
\* assertions accept, and the first on either side that they reject.
MinAssertedExponent == -1500
MaxAssertedExponent == 1500

CachedPowerCalls ==
    {[fn |-> "GetCachedPowerForBinaryExponent", e |-> e, ret |-> <<>>,
      trap |-> ""] : e \in MinAssertedExponent - 1..MaxAssertedExponent + 1}

GetCachedPowerForBinaryExponent_call(s) ==
    IF CachedPowerAsserts(s.call.e)
    THEN Returned(s, GetCachedPowerForBinaryExponent(s.call.e))
    ELSE Trapped(s)

CallGetCachedPower ==
    /\ pc = "call" /\ call.fn = "GetCachedPowerForBinaryExponent"
    /\ Set(GetCachedPowerForBinaryExponent_call(Cur))

\* The calls NormalizeTo(x, e): significands from 0 to 2^64 - 1, among them
\* the 2 * v.f + 1 and 4 * v.f - 1 of ComputeBoundaries, and targets e on
\* both sides of x.e.
NormalizeToSignificands ==
    {<<>>, <<1>>, BAdd(BPow2(53), <<1>>), BSub(BPow2(54), <<1>>),
     BSub(BPow2(55), <<1>>), BPow2(63), BSub(BPow2(64), <<1>>)}

NormalizeToDeltas == {-64, -11, -2, -1, 0, 1, 9, 10, 11, 63, 64, 65, 70}

NormalizeToCalls ==
    {[fn |-> "NormalizeTo", x |-> DiyFp(f, xe), e |-> xe - d, ret |-> <<>>,
      trap |-> ""] :
        f \in NormalizeToSignificands, xe \in {-1075, 0, 971},
        d \in NormalizeToDeltas}

\* The states a call of NormalizeTo can end in.  A shift of a uint64_t by 64
\* or more is undefined: the build either takes the count modulo 64 or
\* shifts every bit out.
NormalizeTo_call(s) ==
    LET x     == s.call.x
        e     == s.call.e
        d     == x.e - e
    IN  IF d < 0 THEN {Trapped(s)}
        ELSE IF d < 64
        THEN {IF NormalizeToAsserts(x, e) THEN Returned(s, NormalizeTo(x, e))
              ELSE Trapped(s)}
        ELSE {IF NormalizeToAsserts(x, x.e - (d % 64))
              THEN Returned(s, DiyFp(NormalizeTo(x, x.e - (d % 64)).f, e))
              ELSE Trapped(s),
              IF x.f = <<>> THEN Returned(s, DiyFp(<<>>, e)) ELSE Trapped(s)}

CallNormalizeTo ==
    /\ pc = "call" /\ call.fn = "NormalizeTo"
    /\ \E t \in NormalizeTo_call(Cur) : Set(t)

\* The calls Multiply(x, y) in either form: significands around 0, 2^32,
\* 2^63 and 2^64, with products at, below and above a tie, and cached powers.
MultiplySignificands ==
    {<<>>, <<1>>, <<3>>, BPow2(31), BSub(BPow2(32), <<1>>), BPow2(32),
     BAdd(BPow2(32), <<1>>), BSub(BPow2(63), <<1>>), BPow2(63),
     BAdd(BPow2(63), <<1>>), BSub(BPow2(64), BPow2(32)),
     BSub(BPow2(64), <<1>>), GetCachedPower(0).f, GetCachedPower(41).f,
     GetCachedPower(78).f}

MultiplyCalls ==
    {[fn |-> "Multiply", form |-> form, x |-> DiyFp(f, xe),
      y |-> DiyFp(g, -xe - 60), ret |-> <<>>, trap |-> ""] :
        form \in {"uint128", "schoolbook"}, f \in MultiplySignificands,
        g \in MultiplySignificands,
        xe \in {MinBinaryExponent, MaxBinaryExponent}}

Multiply_call(s) ==
    IF s.call.form = "uint128"
    THEN Returned(s, Multiply(s.call.x, s.call.y))
    ELSE Returned(s, MultiplySchoolbook(s.call.x, s.call.y))

CallMultiply ==
    /\ pc = "call" /\ call.fn = "Multiply" /\ Set(Multiply_call(Cur))

\* The state in which the call Dtoa(buffer, last, x, false) reaches label.
RECURSIVE RunTo(_, _)
RunTo(label, s) == IF s.pc = label THEN s ELSE RunTo(label, Step(s))

\* The state at a call Grisu2Round(buffer, length, distance, delta, rest,
\* ten_kappa) with the digits of B in the buffer, 10^kappa the unit of the
\* last digit, and L, w and H given in quarters, at the exponent -32.
Grisu2RoundAt(digits, kappa, L4, w4, H4) ==
    LET e    == -32
        B    == BShl(BMul(DecValue(digits), BPow10(kappa)), -e)
        q    == [L |-> BShl(BFromNat(L4), -e - 2),
                 w |-> BShl(BFromNat(w4), -e - 2),
                 H |-> BShl(BFromNat(H4), -e - 2)]
        t    == Wr(Call("double", Fp(0, <<>>), FALSE), 0, digits)
    IN  [t EXCEPT !.pc = "Grisu2Round", !.L = DiyFp(q.L, e),
                  !.w = DiyFp(q.w, e), !.H = DiyFp(q.H, e),
                  !.length = Len(digits), !.exponent = kappa, !.n = kappa,
                  !.distance = BSub(q.H, q.w), !.delta = BSub(q.H, q.L),
                  !.rest = BSub(q.H, B),
                  !.ten_kappa = BShl(BPow10(kappa), -e)]

\* The calls of Grisu2Round: the one Grisu2DigitGen makes for each finite
\* positive value of Magnitudes, and calls in which
\*   B = 15 is as far from w = 14.5 as 14 is (a tie at once),
\*   B = 16 is decremented once and 15 is then as far from w = 14.5 as 14,
\*   B = 15 is decremented to 14, beyond w = 14.25 and closer to it,
\*   B = 15 stays because 14 is below L = 14.5,
\*   B = 15 is below w = 15.25 already,
\*   B = 150 is decremented to 140, and 130 is farther from w = 138.
Grisu2RoundCalls ==
    UNION {{[fn |-> "Grisu2Round",
             at |-> RunTo("Grisu2Round", Call(t, x, FALSE))] :
               x \in {y \in Magnitudes(t) : IsFinite(t, y) /\ ~IsZero(t, y)}} :
           t \in {"double", "float"}}
    \cup
    {[fn |-> "Grisu2Round", at |-> s] :
        s \in {Grisu2RoundAt(<<Ch(1), Ch(5)>>, 0, 52, 58, 62),
               Grisu2RoundAt(<<Ch(1), Ch(6)>>, 0, 52, 58, 66),
               Grisu2RoundAt(<<Ch(1), Ch(5)>>, 0, 52, 57, 62),
               Grisu2RoundAt(<<Ch(1), Ch(5)>>, 0, 58, 59, 62),
               Grisu2RoundAt(<<Ch(1), Ch(5)>>, 0, 52, 61, 62),
               Grisu2RoundAt(<<Ch(1), Ch(5)>>, 1, 480, 552, 612)}}

-----------------------------------------------------------------------------
(* The specification of the helper calls *)

HelperCalls ==
    CachedPowerCalls \cup NormalizeToCalls \cup MultiplyCalls
    \cup Grisu2RoundCalls

CallsInit == \E c \in HelperCalls : InitFrom(Helper(c))

CallsNext ==
    \/ CallGetCachedPower
    \/ CallNormalizeTo
    \/ CallMultiply
    \/ RoundStart
    \/ RoundLoop

CallsSpec == CallsInit /\ [][CallsNext]_vars

(***************************************************************************)
(* C11.  For every binary exponent e in -1137 .. 960,                      *)
(* GetCachedPowerForBinaryExponent(e) fails no assertion, divides a        *)
(* numerator that is not negative to get its index, 0 <= index < 79, and   *)
(* returns the entry c of the table at that index, with                    *)
(* -60 <= c.e + e + 64 <= -32.                                             *)
(***************************************************************************)
C11_CachedPowerWindow ==
    /\ pc = "returned" /\ call.fn = "GetCachedPowerForBinaryExponent"
    /\ -1137 <= call.e /\ call.e <= 960
    =>  LET e == call.e
            numerator == 300 + CachedPowerK(e) + 7
        IN  /\ call.trap = "" /\ Len(call.ret) = 1
            /\ numerator >= 0
            /\ numerator = CachedPowerIndexNumerator(e)
            /\ CachedPowerIndex(e) = numerator \div 8
            /\ 0 <= CachedPowerIndex(e) /\ CachedPowerIndex(e) < 79
            /\ LET c == call.ret[1]
               IN  /\ c.e = kCachedPowers[CachedPowerIndex(e) + 1][5]
                   /\ c.k = kCachedPowers[CachedPowerIndex(e) + 1][6]
                   /\ -60 <= c.e + e + 64 /\ c.e + e + 64 <= -32

\* The call for the least exponent has returned the last entry of the table.
C11_Witness ==
    /\ pc = "returned" /\ call.fn = "GetCachedPowerForBinaryExponent"
    /\ call.e = MinBinaryExponent /\ Len(call.ret) = 1
    /\ call.ret[1].k = kCachedPowersMaxDecExp

-----------------------------------------------------------------------------
(* ComputeBoundaries *)

\* Grisu2 holds the Boundaries that ComputeBoundaries has returned.
HasBoundaries == pc = "Grisu2"

Normalized(x) == BitLen(x.f) = 64

(***************************************************************************)
(* C12, as stated.  For every finite positive double or single, the three  *)
(* DiyFps v, m_minus and m_plus that ComputeBoundaries returns are all     *)
(* normalized (significand >= 2^63) and all have the exponent of m_plus.   *)
(***************************************************************************)
C12_AllNormalized ==
    HasBoundaries =>
        /\ Normalized(bnd.v) /\ Normalized(bnd.m_minus)
        /\ Normalized(bnd.m_plus)
        /\ bnd.v.e = bnd.m_plus.e /\ bnd.m_minus.e = bnd.m_plus.e

(***************************************************************************)
(* C12, as the code has it.  v and m_plus are normalized and all three     *)
(* have the exponent of m_plus; m_minus is brought to that exponent, not   *)
(* normalized: its significand is below 2^63, and at least 2^62, exactly   *)
(* when the significand of v is 2^63 (the value is a power of two), and at *)
(* least 2^63 otherwise.                                                   *)
(***************************************************************************)
C12_BoundariesShape ==
    HasBoundaries =>
        /\ Normalized(bnd.v) /\ Normalized(bnd.m_plus)
        /\ bnd.v.e = bnd.m_plus.e /\ bnd.m_minus.e = bnd.m_plus.e
        /\ BitLen(bnd.m_minus.f) \in {63, 64}
        /\ BitLen(bnd.m_minus.f) = 63 <=> bnd.v.f = BPow2(63)
        /\ BLt(bnd.m_minus.f, bnd.v.f) /\ BLt(bnd.v.f, bnd.m_plus.f)

\* ComputeBoundaries has returned for 1.0, with m_minus below 2^63.
C12_Witness ==
    /\ HasBoundaries /\ fmt = "double" /\ value = Fp(1023, <<>>)
    /\ bnd.m_minus.f = BSub(BPow2(63), BPow2(9))

-----------------------------------------------------------------------------
(* NormalizeTo *)

NormalizeToReturned == pc = "returned" /\ call.fn = "NormalizeTo"

C14_BoundaryAsymmetry ==
    HasBoundaries =>
        LET v0      == ValueDiyFp(fmt, value)
            closer  == value.F = <<>> /\ value.E > 1
            m_minus == Num(bnd.m_minus.f, bnd.m_minus.e, 0)
            m_plus  == Num(bnd.m_plus.f, bnd.m_plus.e, 0)
        IN  /\ BLt(bnd.m_minus.f, bnd.v.f) /\ BLt(bnd.v.f, bnd.m_plus.f)
            /\ BSub(bnd.m_plus.f, bnd.v.f)
                   = BMulSmall(BSub(bnd.v.f, bnd.m_minus.f),
                               IF closer THEN 2 ELSE 1)
            /\ CmpNum(Num(bnd.v.f, bnd.v.e, 0), Num(v0.f, v0.e, 0)) = 0
            /\ CmpNum(m_plus, Num(BAdd(BMulSmall(v0.f, 2), <<1>>),
                                  v0.e - 1, 0)) = 0
            /\ CmpNum(m_minus,
                      IF closer
                      THEN Num(BSub(BMulSmall(v0.f, 4), <<1>>), v0.e - 2, 0)
                      ELSE Num(BSub(BMulSmall(v0.f, 2), <<1>>), v0.e - 1, 0))
                   = 0
            /\ CmpNum(Twice(m_plus), TwiceMPlus(fmt, value)) = 0
            /\ CmpNum(Twice(m_minus), TwiceMMinus(fmt, value)) = 0

\* ComputeBoundaries has returned for the float 2^24, whose lower neighbour
\* is half as far away as the upper one.
C14_Witness ==
    /\ HasBoundaries /\ fmt = "float" /\ value = Fp(151, <<>>)
    /\ BSub(bnd.m_plus.f, bnd.v.f) = BPow2(39)
    /\ BSub(bnd.v.f, bnd.m_minus.f) = BPow2(38)

-----------------------------------------------------------------------------
(* Multiply *)

MultiplyReturned == pc = "returned" /\ call.fn = "Multiply"

(***************************************************************************)
(* C15.  Multiply(x, y), in the 128-bit form and in the form with four     *)
(* 32 x 32 products alike, returns the significand                         *)
(* floor((x.f * y.f + 2^63) / 2^64) and the exponent x.e + y.e + 64, and   *)
(* no sum it takes wraps around at 2^64: neither h + (l >> 63) in the      *)
(* first form nor Q with the rounding bit and p3 + p2_hi + p1_hi +         *)
(* (Q >> 32) in the second.                                                *)
(***************************************************************************)
C15_MultiplyRounds ==
    MultiplyReturned =>
        LET x == call.x
            y == call.y
            p == BMul(x.f, y.f)
            exact == Schoolbook(x, y, TRUE)
        IN  /\ call.trap = ""
            /\ call.ret = <<DiyFp(BShr(BAdd(p, BPow2(63)), 64),
                                  x.e + y.e + 64)>>
            /\ BitLen(call.ret[1].f) <= 64
            /\ BitLen(BAdd(BShr(p, 64), BShr(U64(p), 63))) <= 64
            /\ BitLen(exact.Q) <= 64 /\ BitLen(exact.h) <= 64
            /\ exact = Schoolbook(x, y, FALSE)

\* The form with four products has returned for (2^64 - 1) * (2^64 - 1):
\* 2^64 - 2, the rounding bit not carried into the high word.
C15_Witness ==
    /\ MultiplyReturned /\ call.form = "schoolbook"
    /\ call.x.f = BSub(BPow2(64), <<1>>) /\ call.y.f = BSub(BPow2(64), <<1>>)
    /\ call.ret[1].f = BSub(BPow2(64), <<2>>)

-----------------------------------------------------------------------------
(* Grisu2 *)

\* Grisu2 calls Grisu2DigitGen(buffer, length, exponent, L, w, H).
DigitGenCalled == pc = "Grisu2DigitGen"

-----------------------------------------------------------------------------
(* Grisu2DigitGen *)

\* Grisu2DigitGen has written the digits of p1 and entered one of its loops.
IntegralDigitsWritten ==
    \/ pc = "FracLoop" /\ m = 0
    \/ pc = "TrimLoop" /\ n = 0

(***************************************************************************)
(* C17.  For every finite positive double or single, the integral part     *)
(* p1 = H.f >> -e that Grisu2DigitGen computes satisfies                   *)
(* 4 <= p1 <= 798336123, so the cast to uint32_t loses nothing, and        *)
(* GenerateIntegralDigits writes the decimal digits of p1, at most 9 and   *)
(* without a leading zero, and returns their count as length.              *)
(***************************************************************************)
C17_IntegralPart ==
    IntegralDigitsWritten =>
        /\ p1 = BShr(H.f, -H.e)
        /\ BLe(<<4>>, p1) /\ BLe(p1, BFromNat(798336123))
        /\ BitLen(p1) <= 32
        /\ 1 <= length /\ length <= 9
        /\ IsDigits(Bytes(Cur, 0, length))
        /\ Rd(Cur, 0) # Ch(0)
        /\ DecValue(Bytes(Cur, 0, length)) = p1
        /\ wmin = 0 /\ wmax = length - 1

\* The largest integral part, of 7.983361238138878e+292, has been written
\* with its 9 digits.
C17_Witness ==
    /\ IntegralDigitsWritten /\ fmt = "double"
    /\ p1 = BFromNat(798336123) /\ length = 9
    /\ Bytes(Cur, 0, 9) = <<Ch(7), Ch(9), Ch(8), Ch(3), Ch(3), Ch(6), Ch(1),
                            Ch(2), Ch(3)>>

-----------------------------------------------------------------------------
(* Grisu2Round *)

\* The three conditions of the while loop, in numbers that do not wrap.
DecrementWanted ==
    /\ BLt(rest, distance)
    /\ BLe(rest, delta) /\ BLe(ten_kappa, BSub(delta, rest))
    /\ \/ BLe(BAdd(rest, ten_kappa), distance)
       \/ BLt(BSub(BAdd(rest, ten_kappa), distance), BSub(distance, rest))

\* The decrements Grisu2Round has made: the digit in the buffer, which it
\* writes back at its end only, less the digit it holds.
Decrements == Rd(Cur, length - 1) - Ch(0) - digit

(***************************************************************************)
(* C18.  Grisu2Round decrements the last digit exactly while               *)
(* rest < distance, delta - rest >= ten_kappa and (rest + ten_kappa <=     *)
(* distance or rest + ten_kappa - distance < distance - rest) all hold,    *)
(* and adds ten_kappa to rest with each decrement, no sum or difference    *)
(* wrapping.  When it leaves the loop the value V of the buffer is, among  *)
(* the values B - j * 10^kappa (j >= 0, B the value it was called with)    *)
(* that are >= L, the one closest to w, the larger one on a tie: each      *)
(* larger one, V + i * 10^kappa <= B, is farther from w,                   *)
(* V + (V + i * 10^kappa) > 2 * w, and each smaller one that is >= L is    *)
(* not closer, V + (V - i * 10^kappa) <= 2 * w.                            *)
(***************************************************************************)
C18_RoundToClosest ==
    [][pc = "RoundLoop" =>
        IF DecrementWanted
        THEN /\ pc' = "RoundLoop"
             /\ digit' = digit - 1
             /\ rest' = BAdd(rest, ten_kappa) /\ BitLen(rest') <= 64
             /\ UNCHANGED <<buffer, length, exponent, distance, delta,
                            ten_kappa>>
        ELSE /\ pc' = "Grisu2Return"
             /\ buffer' = Wr(Cur, length - 1, <<Ch(digit)>>).buffer
             /\ UNCHANGED <<length, exponent, rest>>
             /\ Decrements >= 0
             /\ \A i \in 1..Decrements :
                    CmpNum(Num(BAdd(BMulSmall(RoundDigits, 2), BFromNat(i)),
                               0, exponent),
                           Num(w.f, w.e + 1, 0)) > 0
             /\ \A i \in 1..19 :
                    /\ BLe(BFromNat(i), RoundDigits)
                    /\ CmpNum(NumL, Num(BSub(RoundDigits, BFromNat(i)),
                                        0, exponent)) <= 0
                    => CmpNum(Num(BSub(BMulSmall(RoundDigits, 2),
                                       BFromNat(i)), 0, exponent),
                              Num(w.f, w.e + 1, 0)) <= 0]_vars

\* Grisu2Round leaves the loop on a tie after one decrement: the digit 6 of
\* 16 is now 5, and 15 and 14 are equally far from w = 14.5.
C18_Witness ==
    /\ pc = "RoundLoop" /\ call.fn = "Grisu2Round"
    /\ Decrements = 1 /\ digit = 5 /\ ~DecrementWanted
    /\ BLt(rest, distance)
    /\ BSub(BAdd(rest, ten_kappa), distance) = BSub(distance, rest)

(***************************************************************************)
(* C19.  In Grisu2Round, for every input that Grisu2DigitGen passes to it, *)
(* from the fractional case and from the trimming case, the last digit is  *)
(* not zero whenever the body of the loop runs, so that the digit is never *)
(* decremented below 0 and the byte stored is one of '0' .. '9'.  What     *)
(* keeps it so: digit * ten_kappa + rest > delta throughout, and the body  *)
(* runs only when rest + ten_kappa <= delta.                               *)
(***************************************************************************)
C19_LastDigitNonzero ==
    /\ pc = "RoundLoop" =>
           /\ digit \in 0..9
           /\ BLt(delta, BAdd(BMulSmall(ten_kappa, digit), rest))
           /\ RoundCondition(Cur) =>
                  /\ digit # 0
                  /\ BLe(BAdd(rest, ten_kappa), delta)
    /\ pc = "Grisu2Return" => Rd(Cur, length - 1) \in Ch(0)..Ch(9)

\* The body of the loop is about to run on the digit 2, the only one left of
\* the smallest float after trimming.
C19_Witness ==
    /\ pc = "RoundLoop" /\ RoundCondition(Cur) /\ call.fn = "Dtoa"
    /\ fmt = "float" /\ value = Fp(0, <<1>>)
    /\ n > 0 /\ length = 1 /\ digit = 2

-----------------------------------------------------------------------------
(* Termination *)

(***************************************************************************)
(* C20.  For every finite positive double or single the loops of           *)
(* Grisu2DigitGen end.  At each iteration of the loop for the digits of    *)
(* the fraction (case p2 > delta) delta >= 1, and delta is 10^m times      *)
(* H.f - L.f after m iterations, while fewer than 17 digits have been      *)
(* written.  The trimming loop (case p2 <= delta) is at some n with        *)
(* 0 <= n <= length - 1 at each of its tests, because                      *)
(* p1 * 2^(-e) + p2 > delta.  The loop of Grisu2Round ends as well, and    *)
(* every call runs to completion: each step advances the position of the   *)
(* call, and the call that keeps advancing returns.                        *)
(***************************************************************************)
C20_Terminates ==
    /\ [][pc # "done" /\ <<Advance>>_Position]_vars
    /\ [](/\ pc = "FracLoop" =>
                /\ BLe(<<1>>, delta) /\ BLt(delta, p2)
                /\ delta = BMul(BSub(H.f, L.f), BPow10(m))
                /\ BitLen(BMulSmall(delta, 10)) <= 64
                /\ length < 17
          /\ pc = "TrimLoop" =>
                /\ 0 <= n /\ n <= length - 1
                /\ BLe(rest, delta)
                /\ BLt(delta, BAdd(BShl(p1, -H.e), p2))
                /\ ten_kappa = BShl(BPow10(n), -H.e))
    /\ <>(pc = "done")

\* A call has returned after 15 iterations of the loop for the digits of the
\* fraction, for a double with the exponent field 2.
C20_Witness ==
    /\ pc = "done" /\ call.fn = "Dtoa" /\ fmt = "double" /\ value.E = 2
    /\ m = 15 /\ n = 0 /\ length = 16

-----------------------------------------------------------------------------
(* uint64_t arithmetic of Grisu2DigitGen and Grisu2Round *)

\* UINT64_MAX
UInt64Max == BSub(BPow2(64), <<1>>)

(***************************************************************************)
(* C21.  For every finite positive double or single no uint64_t operation  *)
(* of the digit generation and the rounding wraps around.  Before each     *)
(* p2 *= 10 of Grisu2DigitGen p2 <= UINT64_MAX / 10, the digit d extracted *)
(* is <= 9, and 10 * delta and 10 * distance are <= UINT64_MAX.  In the    *)
(* trimming loop dn * ten_kappa + rest is <= UINT64_MAX, and so is         *)
(* 10 * ten_kappa when the loop goes on.  In Grisu2Round, in the order of  *)
(* the tests: delta - rest is taken with rest <= delta, rest + ten_kappa   *)
(* is <= UINT64_MAX, rest + ten_kappa - distance is taken with             *)
(* rest + ten_kappa > distance, and distance - rest with rest < distance.  *)
(***************************************************************************)
C21_NoWraparound ==
    /\ pc = "FracLoop" =>
           /\ BLe(p2, BDivSmall(UInt64Max, 10))
           /\ BLe(BMulSmall(p2, 10), UInt64Max)
           /\ BLe(BShr(BMulSmall(p2, 10), -H.e), <<9>>)
           /\ BLe(BMulSmall(delta, 10), UInt64Max)
           /\ BLe(BMulSmall(distance, 10), UInt64Max)
    /\ pc = "TrimLoop" =>
           LET dn == Rd(Cur, length - 1 - n) - Ch(0)
               rn == BAdd(BMulSmall(ten_kappa, dn), rest)
           IN  /\ dn \in 0..9
               /\ BLe(rn, UInt64Max)
               /\ BLe(rn, delta) => BLe(BMulSmall(ten_kappa, 10), UInt64Max)
    /\ pc = "RoundLoop" =>
           (BLt(rest, distance) =>
               /\ BLe(rest, delta)
               /\ BLe(ten_kappa, BSub(delta, rest)) =>
                      /\ BLe(BAdd(rest, ten_kappa), UInt64Max)
                      /\ BLt(distance, BAdd(rest, ten_kappa)) =>
                             BLe(rest, distance))


\* A fractional loop already under way whose next 10 * p2 needs 63 bits or
\* more, with one = 2^60, the largest the window of exponents allows.
C21_Witness ==
    /\ pc = "FracLoop"
    /\ m > 0
    /\ H.e = -60
    /\ BitLen(BMulSmall(p2, 10)) >= 63

-----------------------------------------------------------------------------
(* The cached power over the exponents the function accepts *)

\* GetCachedPowerForBinaryExponent(e) has been called with an e that its
\* first two assertions accept.
CachedPowerCalled ==
    /\ pc = "returned" /\ call.fn = "GetCachedPowerForBinaryExponent"
    /\ -1500 <= call.e /\ call.e <= 1500

(***************************************************************************)
(* C22.  For every e with -1500 <= e <= 1500 and f = -60 - e - 1, the k    *)
(* that GetCachedPowerForBinaryExponent computes, f * 78913 / 2^18 with    *)
(* the quotient rounded toward zero plus 1 if f > 0, is the ceiling of     *)
(* f * log10(2): 10^k >= 2^f and 10^(k-1) < 2^f.                           *)
(***************************************************************************)
C22_CeilingOfLog ==
    CachedPowerCalled =>
        LET f == -60 - call.e - 1
            k == CachedPowerK(call.e)
            q == IF f >= 0 THEN (f * 78913) \div 262144
                           ELSE -((-f * 78913) \div 262144)
        IN  /\ k = q + (IF f > 0 THEN 1 ELSE 0)
            /\ CmpNum(Num(<<1>>, 0, k), Num(<<1>>, f, 0)) >= 0
            /\ CmpNum(Num(<<1>>, 0, k - 1), Num(<<1>>, f, 0)) < 0

\* The call with the largest e accepted: f = -1561 and k = -469, where the
\* quotient is negative and not exact.
C22_Witness ==
    /\ CachedPowerCalled
    /\ call.e = 1500
    /\ CachedPowerK(call.e) = -469
    /\ (1561 * 78913) % 262144 # 0


\* The assertions of the function after the first two hold for e.
CachedPowerLaterAsserts(e) ==
    /\ CachedPowerIndex(e) >= 0
    /\ CachedPowerIndex(e) < kCachedPowersSize
    /\ kAlpha <= GetCachedPower(CachedPowerIndex(e)).e + e + 64
    /\ kGamma >= GetCachedPower(CachedPowerIndex(e)).e + e + 64

\* The statement with the whole accepted range: every call with
\* -1500 <= e <= 1500 passes the later assertions, with a numerator that is
\* not negative.
C23_EntryAssertionsSuffice ==
    CachedPowerCalled =>
        /\ call.trap = ""
        /\ 300 + CachedPowerK(call.e) + 7 >= 0
        /\ CachedPowerLaterAsserts(call.e)

(***************************************************************************)
(* C23.  Among the e that pass the entry assertions of                     *)
(* GetCachedPowerForBinaryExponent (-1500 <= e <= 1500), the later         *)
(* assertions hold exactly for -1137 <= e <= 964: then 0 <= index < 79 and *)
(* the cached power c returned has -60 <= c.e + e + 64 <= -32.  The index  *)
(* numerator 300 + k + 7 is non-negative exactly for e <= 962; from 963 to *)
(* 985 it is negative and the division toward zero gives index 0.  For     *)
(* e < -1137 the index is 79 or more and for e > 985 it is negative: the   *)
(* call fails an assertion on the index.  For 965 <= e <= 985 the index is *)
(* 0 and c.e + e + 64 > -32: the call fails the assertion on the window.   *)
(***************************************************************************)
C23_LaterAssertions ==
    CachedPowerCalled =>
        LET e == call.e
            numerator == 300 + CachedPowerK(e) + 7
            index == CachedPowerIndex(e)
        IN  /\ numerator = CachedPowerIndexNumerator(e)
            /\ numerator >= 0 <=> e <= 962
            /\ index >= kCachedPowersSize <=> e < -1137
            /\ index < 0 <=> e > 985
            /\ call.trap = "" <=> (-1137 <= e /\ e <= 964)
            /\ call.trap = "" =>
                   /\ CachedPowerLaterAsserts(e)
                   /\ call.ret = <<GetCachedPower(index)>>
                   /\ -60 <= call.ret[1].e + e + 64
                   /\ call.ret[1].e + e + 64 <= -32
            /\ call.trap # "" =>
                   /\ call.ret = <<>>
                   /\ \/ index < 0
                      \/ index >= kCachedPowersSize
                      \/ /\ index = 0 /\ 965 <= e /\ e <= 985
                         /\ GetCachedPower(0).e + e + 64 > -32

\* The call with e = 964 has returned the first entry of the table, found
\* from a negative numerator, at the upper end of the window.
C23_Witness ==
    /\ CachedPowerCalled
    /\ call.e = 964 /\ call.trap = ""
    /\ CachedPowerIndexNumerator(call.e) < 0
    /\ CachedPowerIndex(call.e) = 0
    /\ call.ret[1].e + call.e + 64 = kGamma

=============================================================================
